---- MODULE Spec2Model ----
(***************************************************************************)
(* Viewport data loading and tile caching of the UrbanGreen map            *)
(* component: ViewportDataLoader (src/unnamed/part_001), the spatial query *)
(* helpers (src/unnamed/part_000), TileCache and the UrbanGreenMapV2       *)
(* component that drives them.                                             *)
(*                                                                         *)
(* Conventions.  A zoom is an integer number of tenths (115 is zoom 11.5). *)
(* Longitudes and latitudes are integer millidegrees.  A feature list is a *)
(* sequence of page chunks <<category, page, n>>: the n features decoded   *)
(* from that page of that category; the empty list is <<>>.                *)
(* A string that the program takes apart is the sequence of its tokens,    *)
(* each an integer: a number n >= 0 in decimal is n, the separator ":" and *)
(* the words without separator have negative codes.  A category identifier *)
(* ("1", "2", "3") is a word.                                              *)
(* JavaScript runs one callback at a time, so every action below is one    *)
(* task of the event loop (an event handler, a timer, an IndexedDB or      *)
(* network callback, with the promise reactions that run in it) or one     *)
(* continuation of an await.  A continuation that waits for nothing        *)
(* outside the program is a microtask: it runs before the next task.       *)
(***************************************************************************)
EXTENDS Integers, Sequences, FiniteSets, TLC

(***************************************************************************)
(* Bounds of the model.                                                    *)
(***************************************************************************)
\* number of loadViewportData calls made on the loader
MaxCalls == 3
\* number of calls that query several categories at once
MaxSiblingCalls == 1
\* number of viewport loads the map component starts
MaxMapCalls == 3
\* number of calls made on the loader when the paginated fetcher is studied
MaxFetcherCalls == 2
\* number of loadViewportData calls, and of getCacheStats calls, made on the
\* loader when its cache statistics are studied
MaxStatsLoads == 1
\* number of calls made directly on the tile cache
MaxCacheCalls == 2
\* number of times the clock is seen to advance
MaxTicks == 2
\* number of applications of a helper of SpatialQueryUtils that are compared
MaxUtilCalls == 2

\* number of applications of chooseSpatialStrategy
MaxStrategyCalls == 1

\* the longest point sequence simplified
MaxPoints == 5

\* number of /refresh calls made on the tile service
MaxRefreshCalls == 3
\* CONFIG.BATCH_SIZE, the pages of one batch (100 in the source), scaled
BATCH_SIZE == 2
\* CONFIG.PAGESIZE, the items of a full page (200 in the source), scaled
PAGESIZE == 2
\* the last page of the dataset, the literal 1200 of handleBatchedRefresh,
\* scaled
PageLimit == 5

(***************************************************************************)
(* Program constants.                                                      *)
(***************************************************************************)
CACHE_DURATION == 604800000
MAX_RETRIES == 2

(***************************************************************************)
(* Inputs.                                                                 *)
(***************************************************************************)
\* two viewports around the component's default center whose centers fall
\* in the same slippy-map tile at zoom 11
B1 == [west |-> 11800, east |-> 11950, south |-> 45350, north |-> 45460]
B2 == [west |-> 11820, east |-> 11980, south |-> 45360, north |-> 45460]

NoType == "none"

\* the categories: GREEN_CODE_TYPES
Vegetation == "1"
Furniture == "2"
Zones == "3"

\* a viewport with the center of B1 and another extent, and one further
\* north
B3 == [west |-> 11700, east |-> 12050, south |-> 45300, north |-> 45510]
B4 == [west |-> 11800, east |-> 11950, south |-> 45450, north |-> 45550]

\* the arguments getTileKey is applied to
KeyBounds == {B1, B2, B3, B4}
KeyZooms == {110, 115, 145}
KeyTypes == {Vegetation, Furniture, Zones}

\* the arguments getLayersForZoom is applied to: zooms around each
\* threshold, and the user's choice (NoType: none)
LayerZooms == {90, 100, 101, 115, 120, 121, 140, 141, 160}
LayerTypes == {NoType, Vegetation, Furniture, Zones}

\* viewports of a zoomed-out map, whose center is 20000 m, 20350 m and
\* 35000 m away from their north-east corner
B5 == [west |-> 11645, east |-> 12105, south |-> 45420, north |-> 45580]
B6 == [west |-> 11640, east |-> 12110, south |-> 45420, north |-> 45580]
B7 == [west |-> 11540, east |-> 12210, south |-> 45265, north |-> 45685]

\* the arguments chooseSpatialStrategy is applied to: zooms around 10 and
\* 13, every category, small and large viewports
StrategyZooms == {90, 100, 101, 125, 129, 130, 131, 145}
StrategyTypes == {Vegetation, Furniture, Zones}
StrategyBounds == {B1, B3, B5, B6, B7}

\* the zooms at which the page policy is looked at: around each threshold
PolicyZooms ==
  {90, 100, 101, 105, 110, 111, 115, 125, 130, 131, 140, 150, 151, 160}

\* the points and tolerances _douglasPeucker is applied to: the points of a
\* grid of 3 by 2, which hold the ring 0 0, 0 1, 1 1, 1 0, 0 0
SimplifyCoords == { <<x, y>> : x \in 0..2, y \in 0..1 }
SimplifyTolerances == {0, 1, 2}

\* the tokens of a geometry text: a coordinate is a number; parentheses,
\* commas, the suffix ";SRID=" and words have negative codes.  "1.2.3" is
\* a text of digits and dots that is no number, "x" a text that is neither
Sym(s) ==
  CASE s = "(" -> 0 - 31
    [] s = ")" -> 0 - 32
    [] s = "," -> 0 - 33
    [] s = ";SRID=" -> 0 - 34
    [] s = "POINT" -> 0 - 41
    [] s = "LINESTRING" -> 0 - 42
    [] s = "POLYGON" -> 0 - 43
    [] s = "CIRCLE" -> 0 - 44
    [] s = "1.2.3" -> 0 - 51
    [] s = "x" -> 0 - 52

\* null and undefined, where a number is expected
null == 0 - 99

\* undefined, where a text is expected
undefined == "undefined"

\* geometry texts: "x1 y1, x2 y2, ..." for a list of points
RECURSIVE CoordText(_)
CoordText(points) ==
  IF Len(points) = 0 THEN <<>>
  ELSE IF Len(points) = 1 THEN Head(points)
  ELSE Head(points) \o << Sym(",") >> \o CoordText(Tail(points))

\* "KEYWORD(...)" and "KEYWORD((...))"
WktText(keyword, points) ==
  << Sym(keyword), Sym("(") >> \o CoordText(points) \o << Sym(")") >>

WktRingText(keyword, points) ==
  << Sym(keyword), Sym("("), Sym("(") >> \o CoordText(points)
    \o << Sym(")"), Sym(")") >>

\* POINT(120 40), with and without the suffix ;SRID=4326
WktPoint == WktText("POINT", << <<120, 40>> >>)
WktPointSrid == WktPoint \o << Sym(";SRID="), 4326 >>
\* LINESTRING(0 0, 100 100) and the line of one point LINESTRING(5 5)
WktLine == WktText("LINESTRING", << <<0, 0>>, <<100, 100>> >>)
WktLineShort == WktText("LINESTRING", << <<5, 5>> >>)
\* POLYGON((0 0, 50 4, 100 0, 100 100, 0 100, 0 0)): a square with one more
\* vertex near its first side
SquareRing ==
  << <<0, 0>>, <<50, 4>>, <<100, 0>>, <<100, 100>>, <<0, 100>>, <<0, 0>> >>
WktSquare == WktRingText("POLYGON", SquareRing)
\* POLYGON((0 0, 100 0, 0 102, 0 0)): the mean of the latitudes is 25.5
TriangleRing == << <<0, 0>>, <<100, 0>>, <<0, 102>>, <<0, 0>> >>
WktTriangle == WktRingText("POLYGON", TriangleRing)
\* texts that are no geometry: POINT(), CIRCLE(1 2), POINT(1.2.3 40),
\* POINT(x 40) and the ring of two points POLYGON((0 0, 1 1))
WktEmptyPoint == WktText("POINT", <<>>)
WktCircle == WktText("CIRCLE", << <<1, 2>> >>)
WktBadNumber == WktText("POINT", << << Sym("1.2.3"), 40 >> >>)
WktNoNumber == WktText("POINT", << << Sym("x"), 40 >> >>)
WktShortRing == WktRingText("POLYGON", << <<0, 0>>, <<1, 1>> >>)

\* the fields of three records of the remote other than their geometry: one
\* with every field and titles in two languages, one with the identifier
\* alone, one with a title in German alone
FullRecord ==
  [Id |-> "A1", GreenCodeType |-> "1", GreenCodeSubtype |-> "11",
   GreenCode |-> "1.11", Active |-> TRUE, Shortname |-> "Oak",
   Detail |-> << [lang |-> "it", Title |-> "Quercia"],
                 [lang |-> "en", Title |-> "Oak tree"] >>,
   Geo |-> <<>>, Latitude |-> null, Longitude |-> null]
BareRecord ==
  [Id |-> "B2", GreenCodeType |-> undefined, GreenCodeSubtype |-> undefined,
   GreenCode |-> undefined, Active |-> FALSE, Shortname |-> undefined,
   Detail |-> <<>>, Geo |-> <<>>, Latitude |-> null, Longitude |-> null]
GermanRecord ==
  [Id |-> "C3", GreenCodeType |-> "2", GreenCodeSubtype |-> "",
   GreenCode |-> "2.01", Active |-> TRUE, Shortname |-> "",
   Detail |-> << [lang |-> "de", Title |-> "Bank"] >>,
   Geo |-> <<>>, Latitude |-> null, Longitude |-> null]

\* an entry of Geo with a Geometry text (empty: none) and Latitude and
\* Longitude (null: none)
GeoEntry(default, text, lat, lng) ==
  [Default |-> default, Geometry |-> text, Latitude |-> lat,
   Longitude |-> lng]

\* a record whose Geo has one entry, with the text alone
WithText(record, text) ==
  [record EXCEPT !.Geo = << GeoEntry(FALSE, text, null, null) >>]

\* a record whose Geo has one entry, with the text and a position
WithTextAt(record, text, lat, lng) ==
  [record EXCEPT !.Geo = << GeoEntry(FALSE, text, lat, lng) >>]

\* the records of the remote: with each text; a line, a text that is no
\* geometry and no text with a position; no Geo; a Geo whose second entry
\* is the default; a position on the record itself
PageItems ==
  { WithText(FullRecord, WktPoint),
    WithText(BareRecord, WktPointSrid),
    WithText(FullRecord, WktLine),
    WithText(BareRecord, WktLineShort),
    WithText(FullRecord, WktSquare),
    WithText(GermanRecord, WktTriangle),
    WithText(BareRecord, WktEmptyPoint),
    WithText(FullRecord, WktCircle),
    WithText(BareRecord, WktBadNumber),
    WithText(BareRecord, WktNoNumber),
    WithText(GermanRecord, WktShortRing),
    WithTextAt(GermanRecord, WktLine, 46000000, 11000000),
    WithTextAt(GermanRecord, WktCircle, 46000000, 11000000),
    WithTextAt(FullRecord, <<>>, 46000000, 11000000),
    BareRecord,
    [FullRecord EXCEPT !.Geo = << GeoEntry(FALSE, WktLine, null, null),
                                  GeoEntry(TRUE, WktPoint, null, null) >>],
    [WithText(GermanRecord, <<>>) EXCEPT !.Latitude = 46000000,
                                         !.Longitude = 11000000] }

\* the pages of the remote: each record alone, and pages in which some or
\* all records have no geometry
Pages ==
  { << item >> : item \in PageItems }
    \cup { << WithText(FullRecord, WktCircle),
              WithText(FullRecord, WktSquare) >>,
           << BareRecord, WithText(BareRecord, WktEmptyPoint) >>,
           << WithText(FullRecord, WktLine), WithText(FullRecord, WktPoint),
              WithText(BareRecord, WktLineShort) >> }

\* the zooms at which a page is decoded, and the loader's language
DecodeZooms == {105, 110, 111, 119, 120, 149, 150, 160}
Langs == {"en", "it"}

\* the calls the model makes: bounds, zoom, userSelectedType and
\* options.pagesize (0: not given).  The two viewports give one tile key;
\* zoom 11.5 has a budget of two pages, zoom 11.0 of one.
Requests ==
  { [bounds |-> B1, zoom |-> 115, userSelectedType |-> "1", pagesize |-> 1],
    [bounds |-> B2, zoom |-> 110, userSelectedType |-> "1", pagesize |-> 1] }

\* a call with no category chosen: at zoom 11.0 it queries "3" and "1"
SiblingRequests ==
  { [bounds |-> B1, zoom |-> 110, userSelectedType |-> NoType, pagesize |-> 1] }

\* a call at zoom 14.5 with no options.pagesize: pages of 250 items and a
\* budget of three pages
FetcherRequests ==
  { [bounds |-> B1, zoom |-> 145, userSelectedType |-> "1", pagesize |-> 0] }

\* the tiles whose keys are used in direct calls on the cache, the feature
\* lists stored, and the steps of the clock: 1 ms and the cache duration
CacheTiles ==
  { [bounds |-> B1, zoom |-> 115, layerType |-> "1"],
    [bounds |-> B1, zoom |-> 145, layerType |-> "1"] }

CacheFeatures == { <<>>, << <<"1", 1, 1>> >> }

ClockSteps == {1, CACHE_DURATION}

\* the view the map shows when a load starts: map.getBounds(), map.getZoom()
MapViews == { [bounds |-> B2, zoom |-> 110] }

\* the main categories the user can select in the component (NoType: none)
MapTypes == {"1", NoType}

\* the remote's answers to one page request: an HTTP status (0: the request
\* failed at the network level or the body was not JSON) and, for 200, the
\* number of items of the page: none, a short page or a full page
Responses(pagesize) ==
  { [status |-> 200, n |-> k] : k \in {0, pagesize \div 2, pagesize} }
    \cup { [status |-> s, n |-> 0] : s \in {404, 500, 503, 0} }

\* a remote that has only full pages, pages that do not exist, and errors
NotFoundResponses(pagesize) ==
  { resp \in Responses(pagesize) :
      resp.status \in {404, 500} \/ resp.n = pagesize }

(***************************************************************************)
(* SpatialQueryUtils                                                       *)
(***************************************************************************)
Pow2(z) == 2 ^ z

getCenter(bounds) ==
  [lng |-> (bounds.west + bounds.east) \div 2,
   lat |-> (bounds.south + bounds.north) \div 2]

\* (1 - ln(tan(lat) + sec(lat)) / pi) / 2, scaled by 2^24, tabulated for the
\* latitudes of the viewports above
MercatorFrac24(lat) ==
  CASE lat = 45405 -> 6008397
    [] lat = 45410 -> 6008065
    [] lat = 45500 -> 6002086

\* fault: a selection that ignores the user's choice
getLayersForZoomOnly(zoom, userSelectedType) ==
  IF zoom <= 100 THEN <<"3">>
  ELSE IF zoom <= 120 THEN <<"3", "1">>
  ELSE IF zoom <= 140 THEN <<"3", "1", "2">>
  ELSE <<"1", "2", "3">>

getLayersForZoom(zoom, userSelectedType) ==
  IF userSelectedType # NoType THEN <<userSelectedType>>
  ELSE IF zoom <= 100 THEN <<"3">>
  ELSE IF zoom <= 120 THEN <<"3", "1">>
  ELSE IF zoom <= 140 THEN <<"3", "1", "2">>
  ELSE <<"1", "2", "3">>

\* fault: a key made of the zoom and the center, without the category
getTileKeyOfCenter(bounds, zoom, layerType) ==
  << zoom \div 10, getCenter(bounds).lng, getCenter(bounds).lat >>

\* z = Math.floor(zoom)
TileZ(zoom) == zoom \div 10

\* x = floor((lng + 180) / 360 * 2^z), with 360000 = 2^6 * 5625 so that the
\* product stays within TLC's integers
TileX(c, z) ==
  IF z >= 6 THEN ((c.lng + 180000) * Pow2(z - 6)) \div 5625
            ELSE ((c.lng + 180000) * Pow2(z)) \div 360000

\* y = floor(frac * 2^z), frac being MercatorFrac24 / 2^24
TileY(c, z) == MercatorFrac24(c.lat) \div Pow2(24 - z)

\* the tokens of a string
Sep == 0 - 1
Num(n) == n
Word(w) ==
  CASE w = "urbangreen" -> 0 - 2
    [] w = "v2" -> 0 - 3
    [] w = "all" -> 0 - 4
    [] w = "1" -> 0 - 11
    [] w = "2" -> 0 - 12
    [] w = "3" -> 0 - 13

\* `urbangreen:v2:${z}:${x}:${y}:${layerType}`
getTileKey(bounds, zoom, layerType) ==
  LET c == getCenter(bounds)
      z == TileZ(zoom)
      x == TileX(c, z)
      y == TileY(c, z)
  IN  << Word("urbangreen"), Sep, Word("v2"), Sep, Num(z), Sep, Num(x), Sep,
         Num(y), Sep, Word(layerType) >>

\* getGeometryStrategy(zoom); the tolerance is in millionths of a degree
\* (0.001 is 1000, 0.00005 is 50)
getGeometryStrategy(zoom) ==
  IF zoom <= 110
  THEN [includeFullGeometry |-> FALSE, simplificationTolerance |-> 1000]
  ELSE IF zoom <= 130
  THEN [includeFullGeometry |-> TRUE, simplificationTolerance |-> 500]
  ELSE IF zoom <= 150
  THEN [includeFullGeometry |-> TRUE, simplificationTolerance |-> 100]
  ELSE [includeFullGeometry |-> TRUE, simplificationTolerance |-> 50]

\* fault: page sizes whose second step is at zoom 14
getOptimalPageSizeLate(zoom) ==
  IF zoom <= 100 THEN 100
  ELSE IF zoom <= 140 THEN 150
  ELSE IF zoom <= 150 THEN 250
  ELSE 400

getOptimalPageSize(zoom) ==
  IF zoom <= 100 THEN 100
  ELSE IF zoom <= 130 THEN 150
  ELSE IF zoom <= 150 THEN 250
  ELSE 400

getMaxPagesForZoom(zoom) ==
  IF zoom <= 110 THEN 1
  ELSE IF zoom <= 130 THEN 2
  ELSE IF zoom <= 150 THEN 3
  ELSE 999

\* bounds.getNorthEast()
getNorthEast(bounds) == [lng |-> bounds.east, lat |-> bounds.north]

\* Math.round(R * 2 * atan2(sqrt(a), sqrt(1 - a))) with R = 6371000 and a
\* the haversine of the two points, in metres; tabulated for the center
\* latitude, the corner latitude and the difference of longitudes of the
\* viewports above
Haversine(lat1, lat2, dLng) ==
  CASE lat1 = 45405 /\ lat2 = 45460 /\ dLng = 75 -> 8465
    [] lat1 = 45410 /\ lat2 = 45460 /\ dLng = 80 -> 8359
    [] lat1 = 45405 /\ lat2 = 45510 /\ dLng = 175 -> 17962
    [] lat1 = 45500 /\ lat2 = 45550 /\ dLng = 75 -> 8065
    [] lat1 = 45500 /\ lat2 = 45580 /\ dLng = 230 -> 20000
    [] lat1 = 45500 /\ lat2 = 45580 /\ dLng = 235 -> 20350
    [] lat1 = 45475 /\ lat2 = 45685 /\ dLng = 335 -> 35000

calculateRadiusFromBounds(bounds) ==
  LET c == getCenter(bounds)
      ne == getNorthEast(bounds)
  IN  Haversine(c.lat, ne.lat, ne.lng - c.lng)

\* factor = zoom < 13 ? 0.6 : 0.8, in tenths
ShrinkFactor10(zoom) == IF zoom < 130 THEN 6 ELSE 8

\* fault: bounds that are not scaled
shrinkBoundsUnscaled(bounds, zoom) == bounds

\* shrinkBounds(bounds, zoom): the bounds scaled toward their center; the
\* extents of the viewports above are multiples of 10 millidegrees, so the
\* halves of the scaled extents are whole
shrinkBounds(bounds, zoom) ==
  LET cx == (bounds.west + bounds.east) \div 2
      cy == (bounds.south + bounds.north) \div 2
      w == ((bounds.east - bounds.west) * ShrinkFactor10(zoom)) \div 20
      h == ((bounds.north - bounds.south) * ShrinkFactor10(zoom)) \div 20
  IN  [west |-> cx - w, east |-> cx + w, south |-> cy - h, north |-> cy + h]

\* `POLYGON((${w} ${s}, ${e} ${s}, ${e} ${n}, ${w} ${n}, ${w} ${s}))`: the
\* vertices of the ring, in the order written
bboxToPolygon(bounds) ==
  << <<bounds.west, bounds.south>>, <<bounds.east, bounds.south>>,
     <<bounds.east, bounds.north>>, <<bounds.west, bounds.north>>,
     <<bounds.west, bounds.south>> >>

\* buildPolygonQuery(bounds), which is given no options
buildPolygonQuery(bounds) == [polygon |-> bboxToPolygon(bounds)]

\* v.toFixed(6): the decimal with six fraction digits, as its number of
\* millionths of a degree
toFixed6(v) == v * 1000

\* buildRadiusQuery(center, radiusMeters); every radius it is given is a
\* whole number of metres, which Math.round leaves as it is
buildRadiusQuery(center, radiusMeters) ==
  [latitude |-> toFixed6(center.lat),
   longitude |-> toFixed6(center.lng),
   radius |-> radiusMeters]

\* Math.min
Min(a, b) == IF a < b THEN a ELSE b

\* fault: a strategy whose furniture rule comes before its zoom rule
chooseSpatialStrategyFurnitureFirst(greenCodeType, zoom, bounds) ==
  IF greenCodeType = "2"
  THEN [type |-> "radius",
        params |-> buildRadiusQuery(getCenter(bounds),
                                    IF zoom >= 130 THEN 1500 ELSE 3000)]
  ELSE IF zoom <= 100
  THEN [type |-> "radius",
        params |-> buildRadiusQuery(getCenter(bounds),
                     Min(calculateRadiusFromBounds(bounds), 20000))]
  ELSE [type |-> "polygon",
        params |-> buildPolygonQuery(shrinkBounds(bounds, zoom))]

chooseSpatialStrategy(greenCodeType, zoom, bounds) ==
  LET center == getCenter(bounds)
      shrunk == shrinkBounds(bounds, zoom)
      radius == calculateRadiusFromBounds(bounds)
  IN  IF zoom <= 100
      THEN [type |-> "radius",
            params |-> buildRadiusQuery(center, Min(radius, 20000))]
      ELSE IF greenCodeType = "2"
      THEN [type |-> "radius",
            params |-> buildRadiusQuery(center,
                                        IF zoom >= 130 THEN 1500 ELSE 3000)]
      ELSE [type |-> "polygon", params |-> buildPolygonQuery(shrunk)]

(***************************************************************************)
(* The geometry decoder of ViewportDataLoader.  A coordinate is a whole    *)
(* number of millionths of a degree, a point is <<x, y>> for [lng, lat].   *)
(***************************************************************************)
\* fault: a distance that is 0 when the line has no length
perpendicularDistanceNoChord(point, lineStart, lineEnd) ==
  LET dx == lineEnd[1] - lineStart[1]
      dy == lineEnd[2] - lineStart[2]
      numerator == dy * point[1] - dx * point[2]
                     + lineEnd[1] * lineStart[2] - lineEnd[2] * lineStart[1]
  IN  IF dx = 0 /\ dy = 0 THEN [sq |-> 0, den |-> 1]
      ELSE [sq |-> numerator * numerator, den |-> dx * dx + dy * dy]

\* _perpendicularDistance(point, lineStart, lineEnd): the distance is the
\* square root of sq / den
perpendicularDistance(point, lineStart, lineEnd) ==
  LET x == point[1]
      y == point[2]
      x1 == lineStart[1]
      y1 == lineStart[2]
      x2 == lineEnd[1]
      y2 == lineEnd[2]
      dx == x2 - x1
      dy == y2 - y1
      numerator == dy * x - dx * y + x2 * y1 - y2 * x1
  IN  IF dx = 0 /\ dy = 0
      THEN [sq |-> (x - x1) * (x - x1) + (y - y1) * (y - y1), den |-> 1]
      ELSE [sq |-> numerator * numerator, den |-> dx * dx + dy * dy]

\* the loop of _douglasPeucker from index i on: maxDistance and maxIndex;
\* every distance is to the same line, so two of them compare as their sq
RECURSIVE maxDistanceFrom(_, _, _)
maxDistanceFrom(points, i, max) ==
  IF i > Len(points) - 1 THEN max
  ELSE LET distance ==
             perpendicularDistance(points[i], points[1], points[Len(points)])
       IN  maxDistanceFrom(points, i + 1,
             IF distance.sq > max.sq
             THEN [sq |-> distance.sq, den |-> distance.den, maxIndex |-> i]
             ELSE max)

\* maxDistance > tolerance: sq / den > tolerance^2
exceeds(max, tolerance) ==
  LET q == max.sq \div max.den
  IN  \/ q > tolerance * tolerance
      \/ q = tolerance * tolerance /\ max.sq % max.den # 0

\* _douglasPeucker(points, tolerance); maxIndex counts from 1
RECURSIVE douglasPeucker(_, _)
douglasPeucker(points, tolerance) ==
  IF Len(points) <= 2 THEN points
  ELSE LET max == maxDistanceFrom(points, 2,
                                  [sq |-> 0, den |-> 1, maxIndex |-> 1])
       IN  IF exceeds(max, tolerance)
           THEN LET left == douglasPeucker(SubSeq(points, 1, max.maxIndex),
                                           tolerance)
                    right == douglasPeucker(
                               SubSeq(points, max.maxIndex, Len(points)),
                               tolerance)
                IN  SubSeq(left, 1, Len(left) - 1) \o right
           ELSE << points[1], points[Len(points)] >>

\* _simplifyPolygon(rings, tolerance)
simplifyPolygon(rings, tolerance) ==
  [r \in DOMAIN rings |->
     IF Len(rings[r]) < 4 THEN rings[r]
     ELSE douglasPeucker(rings[r], tolerance)]

\* _toNumber(v)
toNumber(v) == IF v >= 0 THEN v ELSE null

\* Math.round(num / den)
MathRound(num, den) == (2 * num + den) \div (2 * den)

\* _reduceCoordinatePrecision([lng, lat]) of the point whose coordinates
\* are x / den and y / den millionths of a degree: each is rounded to a
\* whole number of millionths
reduceCoordinatePrecision(x, y, den) ==
  << MathRound(x, den), MathRound(y, den) >>

\* _reduceCoordinatePrecision of a list of points
reducePoints(coords) ==
  [i \in DOMAIN coords |->
     reduceCoordinatePrecision(coords[i][1], coords[i][2], 1)]

\* the parts of a text between the separators sep
RECURSIVE splitOn(_, _)
splitOn(str, sep) ==
  IF \A i \in DOMAIN str : str[i] # sep THEN << str >>
  ELSE LET i == CHOOSE j \in DOMAIN str :
                  str[j] = sep /\ \A k \in 1..(j - 1) : str[k] # sep
       IN  << SubSeq(str, 1, i - 1) >>
             \o splitOn(SubSeq(str, i + 1, Len(str)), sep)

\* the loop of _parseCoordList over the parts: a part whose first two
\* texts are numbers gives a point, any other part is passed over
RECURSIVE coordsOf(_)
coordsOf(parts) ==
  IF Len(parts) = 0 THEN <<>>
  ELSE LET part == Head(parts)
           lng == IF Len(part) >= 1 THEN toNumber(part[1]) ELSE null
           lat == IF Len(part) >= 2 THEN toNumber(part[2]) ELSE null
       IN  (IF lng # null /\ lat # null THEN << <<lng, lat>> >> ELSE <<>>)
             \o coordsOf(Tail(parts))

\* _parseCoordList(str); null is the empty list, which every caller takes
\* for null
parseCoordList(str) ==
  coordsOf(SelectSeq(splitOn(str, Sym(",")), LAMBDA part : Len(part) > 0))

\* String(wktString).replace(/;SRID=\d+\s*$/i, '').trim()
cleanWKT(wktString) ==
  IF /\ Len(wktString) >= 2
     /\ wktString[Len(wktString) - 1] = Sym(";SRID=")
     /\ wktString[Len(wktString)] >= 0
  THEN SubSeq(wktString, 1, Len(wktString) - 2)
  ELSE wktString

\* a text of the class [-\d.,]+
NumberLike(tok) == tok >= 0 \/ tok = Sym("1.2.3")

\* the first of a set of positions (0: none)
First(positions) ==
  IF positions = {} THEN 0
  ELSE CHOOSE p \in positions : \A q \in positions : p <= q

\* cleaned.match(/POINT\s*\(\s*([-\d.,]+)\s+([-\d.,]+)\s*\)/i): where the
\* match starts (0: no match)
pointMatch(cleaned) ==
  First({ p \in 1..(Len(cleaned) - 4) :
            /\ cleaned[p] = Sym("POINT")
            /\ cleaned[p + 1] = Sym("(")
            /\ NumberLike(cleaned[p + 2])
            /\ NumberLike(cleaned[p + 3])
            /\ cleaned[p + 4] = Sym(")") })

\* cleaned.match(/LINESTRING\s*\(\s*(.+)\s*\)\s*$/i)
lineMatch(cleaned) ==
  First({ p \in 1..(Len(cleaned) - 3) :
            /\ cleaned[p] = Sym("LINESTRING")
            /\ cleaned[p + 1] = Sym("(")
            /\ cleaned[Len(cleaned)] = Sym(")") })

\* cleaned.match(/POLYGON\s*\(\s*\((.+)\)\s*\)\s*$/i)
polyMatch(cleaned) ==
  First({ p \in 1..(Len(cleaned) - 5) :
            /\ cleaned[p] = Sym("POLYGON")
            /\ cleaned[p + 1] = Sym("(")
            /\ cleaned[p + 2] = Sym("(")
            /\ cleaned[Len(cleaned) - 1] = Sym(")")
            /\ cleaned[Len(cleaned)] = Sym(")") })

\* no geometry: null
NoGeometry == [type |-> "null", coordinates |-> <<>>]

\* _calculateCentroid(coords): the sums, to be divided by coords.length
RECURSIVE sum(_, _)
sum(coords, k) ==
  IF Len(coords) = 0 THEN 0 ELSE Head(coords)[k] + sum(Tail(coords), k)

\* _parseWKT(wktString, strategy)
parseWKT(wktString, strategy) ==
  LET cleaned == cleanWKT(wktString)
      p == pointMatch(cleaned)
      l == lineMatch(cleaned)
      g == polyMatch(cleaned)
      lng == IF p = 0 THEN null ELSE toNumber(cleaned[p + 2])
      lat == IF p = 0 THEN null ELSE toNumber(cleaned[p + 3])
      lineCoords ==
        IF l = 0 THEN <<>>
        ELSE parseCoordList(SubSeq(cleaned, l + 2, Len(cleaned) - 1))
      polyCoords ==
        IF g = 0 THEN <<>>
        ELSE parseCoordList(SubSeq(cleaned, g + 3, Len(cleaned) - 2))
  IN  IF p # 0 /\ lng # null /\ lat # null
      THEN [type |-> "Point",
            coordinates |-> reduceCoordinatePrecision(lng, lat, 1)]
      ELSE IF l # 0 /\ strategy.includeFullGeometry /\ Len(lineCoords) >= 2
      THEN [type |-> "LineString", coordinates |-> reducePoints(lineCoords)]
      ELSE IF g # 0 /\ strategy.includeFullGeometry /\ Len(polyCoords) >= 3
      THEN LET simplified ==
                 simplifyPolygon(<< polyCoords >>,
                                 strategy.simplificationTolerance)
           IN  [type |-> "Polygon",
                coordinates |-> [r \in DOMAIN simplified |->
                                   reducePoints(simplified[r])]]
      ELSE IF g # 0 /\ ~strategy.includeFullGeometry /\ Len(polyCoords) >= 3
      THEN [type |-> "Point",
            coordinates |-> reduceCoordinatePrecision(
              sum(polyCoords, 1), sum(polyCoords, 2), Len(polyCoords))]
      ELSE NoGeometry

\* a ?? b
Coalesce(a, b) == IF a # null THEN a ELSE b

\* geoArray.find((g) => g && g.Default === true) || geoArray[0], for an
\* item with a Geo
defaultGeo(item) ==
  LET default == First({ i \in DOMAIN item.Geo : item.Geo[i].Default })
  IN  IF default # 0 THEN item.Geo[default] ELSE item.Geo[1]

\* _extractGeometry(item, strategy); item.Geo is the list of the entries
\* of the Geo array or map (none: no Geo), and a Geometry that is the empty
\* text stands for no Geometry
extractGeometry(item, strategy) ==
  IF Len(item.Geo) = 0 THEN NoGeometry
  ELSE LET geo == defaultGeo(item)
           geometry == IF Len(geo.Geometry) > 0
                       THEN parseWKT(geo.Geometry, strategy)
                       ELSE NoGeometry
           lat == toNumber(Coalesce(geo.Latitude, item.Latitude))
           lng == toNumber(Coalesce(geo.Longitude, item.Longitude))
       IN  IF geometry # NoGeometry THEN geometry
           ELSE IF lat # null /\ lng # null
           THEN [type |-> "Point",
                 coordinates |-> reduceCoordinatePrecision(lng, lat, 1)]
           ELSE NoGeometry

\* a || b, for texts
Or(a, b) == IF a = undefined \/ a = "" THEN b ELSE a

\* the Title of the first entry of item.Detail among those of the
\* languages langs ("": none); item.Detail is the list of its entries, in
\* the order of Object.values
titleOf(detail, langs) ==
  LET found == First({ i \in DOMAIN detail :
                         /\ detail[i].lang \in langs
                         /\ Or(detail[i].Title, "") # "" })
  IN  IF found = 0 THEN "" ELSE detail[found].Title

\* _getLocalizedTitle(item), lang being this.lang; an item without Detail
\* has the empty list
getLocalizedTitle(item, lang) ==
  IF Len(item.Detail) = 0
  THEN Or(item.Shortname, Or(item.Id, "Unknown"))
  ELSE IF titleOf(item.Detail, {lang}) # ""
  THEN titleOf(item.Detail, {lang})
  ELSE IF titleOf(item.Detail, {"en"}) # ""
  THEN titleOf(item.Detail, {"en"})
  ELSE IF titleOf(item.Detail, {"en", "it", "de"}) # ""
  THEN titleOf(item.Detail, {"en", "it", "de"})
  ELSE Or(item.Shortname, Or(item.Id, "Unknown"))

\* fault: properties that are those of the highest tier at every zoom
extractPropertiesFull(item, zoom, lang) ==
  [id |-> item.Id,
   greenCodeType |-> Or(item.GreenCodeType, ""),
   greenCodeSubtype |-> Or(item.GreenCodeSubtype, ""),
   greenCode |-> Or(item.GreenCode, "N/A"),
   isActive |-> item.Active,
   title |-> getLocalizedTitle(item, lang),
   active |-> IF item.Active THEN "Yes" ELSE "No",
   shortname |-> Or(item.Shortname, "")]

\* _extractProperties(item, zoom); item.Active is a boolean
extractProperties(item, zoom, lang) ==
  IF zoom < 120
  THEN [id |-> item.Id,
        greenCodeType |-> Or(item.GreenCodeType, ""),
        greenCodeSubtype |-> Or(item.GreenCodeSubtype, ""),
        greenCode |-> Or(item.GreenCode, "N/A"),
        isActive |-> item.Active]
  ELSE IF zoom < 150
  THEN [id |-> item.Id,
        greenCodeType |-> Or(item.GreenCodeType, ""),
        greenCodeSubtype |-> Or(item.GreenCodeSubtype, ""),
        greenCode |-> Or(item.GreenCode, "N/A"),
        isActive |-> item.Active,
        title |-> getLocalizedTitle(item, lang)]
  ELSE [id |-> item.Id,
        greenCodeType |-> Or(item.GreenCodeType, ""),
        greenCodeSubtype |-> Or(item.GreenCodeSubtype, ""),
        greenCode |-> Or(item.GreenCode, "N/A"),
        isActive |-> item.Active,
        title |-> getLocalizedTitle(item, lang),
        active |-> IF item.Active THEN "Yes" ELSE "No",
        shortname |-> Or(item.Shortname, "")]

\* no feature: null
NoFeature == [type |-> "null"]

\* _itemToFeature(item, zoom)
itemToFeature(item, zoom, lang) ==
  LET geoStrategy == getGeometryStrategy(zoom)
      geometry == extractGeometry(item, geoStrategy)
  IN  IF geometry = NoGeometry THEN NoFeature
      ELSE [type |-> "Feature", geometry |-> geometry,
            properties |-> extractProperties(item, zoom, lang)]

\* items.map((item) => this._itemToFeature(item, zoom))
mapItemToFeature(items, zoom, lang) ==
  [i \in DOMAIN items |-> itemToFeature(items[i], zoom, lang)]

\* fault: a page whose undecodable items stay in it
filterNothing(features) == features

\* .filter(Boolean)
filterBoolean(features) == SelectSeq(features, LAMBDA f : f # NoFeature)

(***************************************************************************)
(* State                                                                   *)
(***************************************************************************)
VARIABLES
  now,                      \* Date.now()
  storageAvailable,         \* indexedDB exists and has not failed to open
  endpointValid,            \* new URL(this.endpoint) does not throw
  db,                       \* TileCache.db is set
  store,                    \* the object store 'tiles': tile key -> record
  activeRequests,           \* ViewportDataLoader.activeRequests: key -> fetch
  viewportAbortController,  \* the current controller (0: null)
  aborted,                  \* the controllers whose signal is aborted
  calls,                    \* the loadViewportData calls, in start order
  fetches,                  \* the _fetchSingleLayer invocations, in start order
  requestSeq,               \* UrbanGreenMapV2._requestSeq
  currentMainType,          \* UrbanGreenMapV2.currentMainType
  layerData,                \* UrbanGreenMapV2.layerData
  moveDebounceTimer,        \* the debounce timers of onMapMove pending
  cacheCalls,               \* the calls other code makes on the TileCache
  utilCalls                 \* the applications of a helper to be compared

envVars == <<now, storageAvailable, endpointValid, cacheCalls, utilCalls>>
cacheVars == <<db, store>>
loaderVars == <<activeRequests, viewportAbortController, aborted, calls,
                fetches>>
mapVars == <<requestSeq, currentMainType, layerData, moveDebounceTimer>>

vars == <<envVars, cacheVars, loaderVars, mapVars>>

\* the keys of the categories the calls of the model query
TileKeys ==
  UNION { LET layers == getLayersForZoom(r.zoom, r.userSelectedType)
          IN  { getTileKey(r.bounds, r.zoom, layers[i]) : i \in DOMAIN layers }
          : r \in Requests \cup SiblingRequests \cup FetcherRequests }

NoRecord ==
  [present |-> FALSE, z |-> 0, x |-> 0, y |-> 0, layerType |-> <<>>,
   features |-> <<>>, timestamp |-> 0, zoom |-> 0]

\* the state after construction of the component and of its loader; the
\* environment either offers IndexedDB or does not, and the api-base
\* attribute either makes `${apiBase}/v1/UrbanGreen` a URL or does not
Init ==
  /\ now = 0
  /\ storageAvailable \in BOOLEAN
  /\ endpointValid \in BOOLEAN
  /\ db = FALSE
  /\ store = [k \in TileKeys |-> NoRecord]
  /\ activeRequests = [k \in TileKeys |-> 0]
  /\ viewportAbortController = 0
  /\ aborted = {}
  /\ calls = <<>>
  /\ fetches = <<>>
  /\ requestSeq = 0
  /\ currentMainType = NoType
  /\ layerData = [t \in {"1", "2", "3", NoType} |-> <<>>]
  /\ moveDebounceTimer = 0
  /\ cacheCalls = <<>>
  /\ utilCalls = <<>>

(***************************************************************************)
(* TileCache                                                               *)
(***************************************************************************)
\* what the request store.get(tileKey) of TileCache.get reads: the record as
\* of the moment the request is made; without a database, nothing
TileCacheRead(k) == IF db THEN store[k] ELSE NoRecord

\* fault: a cache whose records never expire
TileCacheExpiredNever(r) == FALSE

\* the onsuccess callback of TileCache.get on the record r it read
TileCacheExpired(r) == r.present /\ now - r.timestamp > CACHE_DURATION

TileCacheHit(r) == r.present /\ ~TileCacheExpired(r)

\* tx.objectStore(STORE_NAME).delete(tileKey)
storeDelete(st, k) == [st EXCEPT ![k] = NoRecord]

\* TileCache.delete
TileCacheDelete(st, k) == IF db THEN storeDelete(st, k) ELSE st

\* tx.objectStore(STORE_NAME).clear()
storeClear(st) == [k \in DOMAIN st |-> NoRecord]

\* the records the cursor of TileCache.getStats counts
totalTiles(st) == Cardinality({k \in DOMAIN st : st[k].present})

\* tileKey.split(':'): the parts of a string between its separators
split(str) ==
  LET seps == {i \in 1..Len(str) : str[i] = Sep}
      n == Cardinality(seps)
      sep(j) == IF j = 0 THEN 0
                ELSE IF j = n + 1 THEN Len(str) + 1
                ELSE CHOOSE p \in seps :
                       Cardinality({q \in seps : q <= p}) = j
  IN  [j \in 1..(n + 1) |-> SubSeq(str, sep(j - 1) + 1, sep(j) - 1)]

\* fault: parts taken from the front of the key
atFront(parts, i) == parts[0 - i]

\* parts.at(i) for a negative i: counted from the end
at(parts, i) == parts[Len(parts) + i + 1]

\* Number(part) of a part that is one number in decimal
Number(part) == part[1]

\* the record TileCache.set builds: the key taken apart, the features, the
\* metadata (of which the model keeps the zoom) and the current time
NewRecord(k, features, zoom) ==
  LET parts == split(k)
  IN  [present |-> TRUE,
       z |-> Number(at(parts, -4)),
       x |-> Number(at(parts, -3)),
       y |-> Number(at(parts, -2)),
       layerType |-> at(parts, -1),
       features |-> features,
       timestamp |-> now,
       zoom |-> zoom]

\* tx.objectStore(STORE_NAME).put(record): the record of the key is replaced
storePut(st, k, record) == [st EXCEPT ![k] = record]

\* TileCache.set
TileCacheSet(st, k, features, zoom) ==
  IF db THEN storePut(st, k, NewRecord(k, features, zoom)) ELSE st

(***************************************************************************)
(* TileCache, called directly                                              *)
(***************************************************************************)
CacheCallIds == 1..Len(cacheCalls)

\* a call of get, set, delete, clear or getStats, suspended in
\* `await this.init()`
NewCacheCall(op, k, features, zoom) ==
  [op |-> op, tileKey |-> k, features |-> features, zoom |-> zoom,
   phase |-> "init", snap |-> NoRecord,
   hit |-> FALSE, val |-> <<>>, totalTiles |-> 0]

\* the call goes on with a database: get and getStats make their read
\* request on the store as it is, the others have written and return
CacheCallRuns(call, st) ==
  IF call.op = "get"
  THEN [call EXCEPT !.phase = "request", !.snap = st[call.tileKey]]
  ELSE IF call.op = "getStats"
  THEN [call EXCEPT !.phase = "request", !.totalTiles = totalTiles(st)]
  ELSE [call EXCEPT !.phase = "done"]

\* fault: a cache in which every call sweeps out the expired records
CacheCallStoreSweeps(call, st) ==
  [k \in DOMAIN st |-> IF TileCacheExpired(st[k]) THEN NoRecord ELSE st[k]]

\* the store once the call has gone on with a database
CacheCallStore(call, st) ==
  IF call.op = "set"
  THEN storePut(st, call.tileKey,
                NewRecord(call.tileKey, call.features, call.zoom))
  ELSE IF call.op = "delete" THEN storeDelete(st, call.tileKey)
  ELSE IF call.op = "clear" THEN storeClear(st)
  ELSE st

\* fault: a call that stays suspended when there is no database
CacheCallNoDbHangs(call) == call

\* `if (!this.db) return`: null from get, { totalTiles: 0 } from getStats
CacheCallNoDb(call) == [call EXCEPT !.phase = "done"]

\* the calls suspended in init go on, in the order they were made
RECURSIVE ResumeStore(_, _)
ResumeStore(cc, st) ==
  IF cc = <<>> THEN st
  ELSE ResumeStore(Tail(cc), IF Head(cc).phase = "init"
                             THEN CacheCallStore(Head(cc), st) ELSE st)

RECURSIVE ResumeCalls(_, _)
ResumeCalls(cc, st) ==
  IF cc = <<>> THEN <<>>
  ELSE IF Head(cc).phase = "init"
  THEN << CacheCallRuns(Head(cc), st) >>
         \o ResumeCalls(Tail(cc), CacheCallStore(Head(cc), st))
  ELSE << Head(cc) >> \o ResumeCalls(Tail(cc), st)

(***************************************************************************)
(* ViewportDataLoader                                                      *)
(***************************************************************************)
CallIds == 1..Len(calls)
FetchIds == 1..Len(fetches)

\* fault: abortAll that aborts no signal
abortAllNothing == aborted

\* abortAll: the signals aborted once it has run
abortAllAborted ==
  IF viewportAbortController # 0
  THEN aborted \cup {viewportAbortController}
  ELSE aborted

\* abortAll()
abortAll ==
  /\ aborted' = abortAllAborted
  /\ viewportAbortController' = 0
  /\ UNCHANGED <<envVars, cacheVars, activeRequests, calls, fetches>>

\* one category of a call, suspended in `await this.cache.get(tileKey)`:
\* with a database the read request is made at once; with none to come, get
\* answers null; otherwise get waits for init
NewLayer(bounds, zoom, layerType) ==
  LET k == getTileKey(bounds, zoom, layerType)
  IN  [layerType |-> layerType,
       tileKey |-> k,
       phase |-> IF db \/ ~storageAvailable THEN "cacheGet" ELSE "init",
       snap |-> TileCacheRead(k),
       role |-> "none",
       src |-> 0,
       val |-> <<>>]

\* loadViewportData(bounds, zoom, userSelectedType, options), up to the
\* first await of each category; requestId is the caller's (0: none)
loadViewportData(r, requestId) ==
  LET c == Len(calls) + 1
      layersToQuery == getLayersForZoom(r.zoom, r.userSelectedType)
  IN  /\ aborted' = abortAllAborted
      /\ viewportAbortController' = c
      /\ calls' = Append(calls,
           [bounds |-> r.bounds, zoom |-> r.zoom,
            userSelectedType |-> r.userSelectedType,
            pagesize |-> r.pagesize,
            signal |-> c,
            layers |-> [i \in 1..Len(layersToQuery) |->
                          NewLayer(r.bounds, r.zoom, layersToQuery[i])],
            status |-> "pending",
            cancelled |-> FALSE,
            result |-> <<>>,
            requestId |-> requestId,
            applied |-> "no"])
      /\ UNCHANGED <<envVars, cacheVars, activeRequests, fetches>>

\* fault: a `.then` that returns the features of an aborted fetch
ThenValueAlways(signal, features) == features

\* fault: a `.then` that caches the features of an aborted fetch
ThenStoreAlways(st, signal, k, features, zoom) ==
  TileCacheSet(st, k, features, zoom)

\* the `.then` of the request promise, on the features the fetcher returned:
\* nothing is cached and [] is the value once the signal is aborted
ThenValue(signal, features) == IF signal \in aborted THEN <<>> ELSE features

ThenStore(st, signal, k, features, zoom) ==
  IF signal \in aborted THEN st ELSE TileCacheSet(st, k, features, zoom)

\* the request promise settles: the fetcher's locals are gone
Settled(fr) ==
  [fr EXCEPT !.phase = "settled", !.pageNumber = 0, !.retryCount = 0]

\* the fetcher returned `features` (all pages done, a short page, a failed
\* page, or the AbortError it caught): `.then` runs, which waits for
\* nothing, and `.finally` after it
Returned(fr, features) ==
  Settled([fr EXCEPT
             !.allFeatures = features,
             !.out = ThenValue(fr.signal, features),
             !.outcome = IF fr.signal \in aborted THEN "aborted"
                         ELSE "cached"])

\* fault: a chain without `.catch`, whose request promise rejects
ThrownUncaught(fr) ==
  Settled([fr EXCEPT !.out = <<>>, !.outcome = "error", !.rejected = TRUE])

\* the fetcher threw something that is not an AbortError: `.catch` logs it
\* and returns [], and `.finally` runs
Thrown(fr) ==
  Settled([fr EXCEPT !.out = <<>>, !.outcome = "error"])

\* _fetchSingleLayer starts: an aborted signal throws at the top of the page
\* loop, an endpoint that is no URL throws in buildAPIUrl, otherwise page 1
\* is requested
NewFetch(c, layer) ==
  LET call == calls[c]
      fr == [tileKey |-> layer.tileKey,
             layerType |-> layer.layerType,
             signal |-> call.signal,
             zoom |-> call.zoom,
             pagesize |-> IF call.pagesize # 0 THEN call.pagesize
                          ELSE getOptimalPageSize(call.zoom),
             maxPages |-> getMaxPagesForZoom(call.zoom),
             pageNumber |-> 1,
             retryCount |-> 0,
             requested |-> FALSE,
             failed |-> FALSE,
             allFeatures |-> <<>>,
             phase |-> "fetch",
             outcome |-> "pending",
             rejected |-> FALSE,
             out |-> <<>>]
  IN  IF call.signal \in aborted THEN Returned(fr, <<>>)
      ELSE IF ~endpointValid THEN Thrown(fr)
      ELSE [fr EXCEPT !.requested = TRUE]

\* the features of the items of one page (every item decodes)
PageFeatures(layerType, pageNumber, n) ==
  IF n = 0 THEN <<>> ELSE << <<layerType, pageNumber, n>> >>

\* fault: a loader that never finds a registered fetch
NeverActiveRequest(k) == FALSE

\* this.activeRequests.has(tileKey)
HasActiveRequest(k) == activeRequests[k] # 0

\* fault: a chain without `.finally`, which leaves the key registered
FinallyKeep(ar, k) == ar

\* `.finally(() => this.activeRequests.delete(tileKey))`
FinallyDelete(ar, k) == [ar EXCEPT ![k] = 0]

\* fault: a joiner that awaits the fetcher instead of the request promise
LayerValueOfFetcher(layer) ==
  IF layer.role = "cache" THEN layer.val
  ELSE IF layer.role = "join" THEN fetches[layer.src].allFeatures
  ELSE fetches[layer.src].out

\* what a category's promise resolves to: the cached features, or the value
\* of the request promise it returned
LayerValue(layer) ==
  IF layer.role = "cache" THEN layer.val ELSE fetches[layer.src].out

LayerReady(layer) ==
  \/ layer.phase = "done"
  \/ layer.phase = "await" /\ fetches[layer.src].phase = "settled"

LayerRejected(layer) ==
  layer.phase = "await" /\ fetches[layer.src].rejected

\* A continuation whose promise is settled runs before the next task of the
\* event loop.  Such continuations are pending: the rejection of a page
\* request whose signal is aborted, a cache lookup that needs no database,
\* the return of a call whose categories have all settled, and the rest of
\* UrbanGreenMapV2.loadViewportData once the loader's call has returned.
MicrotaskPending ==
  \/ \E f \in FetchIds :
       fetches[f].phase = "fetch" /\ fetches[f].signal \in aborted
  \/ \E c \in CallIds :
       \/ ~db /\ \E i \in DOMAIN calls[c].layers :
                   calls[c].layers[i].phase = "cacheGet"
       \/ /\ calls[c].status = "pending"
          /\ \A i \in DOMAIN calls[c].layers : LayerReady(calls[c].layers[i])
       \/ /\ calls[c].status = "resolved"
          /\ calls[c].requestId # 0
          /\ calls[c].applied = "no"

\* a call waits for indexedDB.open
InitAwaited ==
  \/ \E c \in CallIds : \E i \in DOMAIN calls[c].layers :
       calls[c].layers[i].phase = "init"
  \/ \E i \in CacheCallIds : cacheCalls[i].phase = "init"

\* indexedDB.open succeeds: the direct calls waiting in init go on, and
\* every get of the loader waiting in init makes its read request
DbInitDone ==
  /\ ~MicrotaskPending
  /\ ~db
  /\ storageAvailable
  /\ InitAwaited
  /\ db' = TRUE
  /\ store' = ResumeStore(cacheCalls, store)
  /\ cacheCalls' = ResumeCalls(cacheCalls, store)
  /\ calls' = [c \in CallIds |->
       [calls[c] EXCEPT !.layers = [i \in DOMAIN calls[c].layers |->
          IF calls[c].layers[i].phase = "init"
          THEN [calls[c].layers[i] EXCEPT
                  !.phase = "cacheGet",
                  !.snap = store'[calls[c].layers[i].tileKey]]
          ELSE calls[c].layers[i]]]]
  /\ UNCHANGED <<now, storageAvailable, endpointValid, utilCalls,
                 activeRequests, viewportAbortController, aborted, fetches>>

\* indexedDB.open fails: onerror resolves initPromise with no database, for
\* good; every call waiting in init goes on without one
DbInitFailed ==
  /\ ~MicrotaskPending
  /\ ~db
  /\ storageAvailable
  /\ InitAwaited
  /\ storageAvailable' = FALSE
  /\ cacheCalls' = [i \in CacheCallIds |->
       IF cacheCalls[i].phase = "init" THEN CacheCallNoDb(cacheCalls[i])
       ELSE cacheCalls[i]]
  /\ calls' = [c \in CallIds |->
       [calls[c] EXCEPT !.layers = [i \in DOMAIN calls[c].layers |->
          IF calls[c].layers[i].phase = "init"
          THEN [calls[c].layers[i] EXCEPT !.phase = "cacheGet"]
          ELSE calls[c].layers[i]]]]
  /\ UNCHANGED <<now, endpointValid, utilCalls, cacheVars, activeRequests,
                 viewportAbortController, aborted, fetches>>

\* a direct call on the cache: with a database it goes on at once, with
\* none to come it returns, otherwise it waits for init
TileCacheCall(op, k, features, zoom) ==
  LET call == NewCacheCall(op, k, features, zoom)
  IN  /\ ~MicrotaskPending
      /\ Len(cacheCalls) < MaxCacheCalls
      /\ IF db
         THEN /\ cacheCalls' = Append(cacheCalls, CacheCallRuns(call, store))
              /\ store' = CacheCallStore(call, store)
         ELSE /\ cacheCalls' = Append(cacheCalls,
                   IF storageAvailable THEN call ELSE CacheCallNoDb(call))
              /\ store' = store
      /\ UNCHANGED <<now, storageAvailable, endpointValid, utilCalls, db,
                     loaderVars>>

\* TileCache.get(tileKey)
CacheGet(k) == TileCacheCall("get", k, <<>>, 0)

\* TileCache.set(tileKey, features, metadata)
CacheSet(tile, features) ==
  TileCacheCall("set", getTileKey(tile.bounds, tile.zoom, tile.layerType),
                features, tile.zoom)

\* TileCache.delete(tileKey)
CacheDelete(k) == TileCacheCall("delete", k, <<>>, 0)

\* TileCache.clear(), ViewportDataLoader.clearCache()
CacheClear == TileCacheCall("clear", <<>>, <<>>, 0)

\* TileCache.getStats(), ViewportDataLoader.getCacheStats()
CacheGetStats == TileCacheCall("getStats", <<>>, <<>>, 0)

\* the read request of a direct call succeeds.  get: no record is null; a
\* record older than CACHE_DURATION is deleted and null is the result; any
\* other record gives its features.  getStats: the cursor has counted.
CacheRequestDone(i) ==
  LET call == cacheCalls[i]
      r == call.snap
  IN  /\ ~MicrotaskPending
      /\ call.phase = "request"
      /\ cacheCalls' = [cacheCalls EXCEPT ![i] =
           IF call.op = "get" /\ TileCacheHit(r)
           THEN [call EXCEPT !.phase = "done",
                             !.hit = TRUE, !.val = r.features]
           ELSE [call EXCEPT !.phase = "done"]]
      /\ store' = IF call.op = "get" /\ TileCacheExpired(r)
                  THEN TileCacheDelete(store, call.tileKey) ELSE store
      /\ UNCHANGED <<now, storageAvailable, endpointValid, utilCalls, db,
                     loaderVars>>

\* the clock steps seen in the value of now
Ticks(t) == (t \div CACHE_DURATION) + (t % CACHE_DURATION)

\* time passes
Tick(d) ==
  /\ Ticks(now) < MaxTicks
  /\ now' = now + d
  /\ UNCHANGED <<storageAvailable, endpointValid, cacheCalls, utilCalls,
                 cacheVars, loaderVars>>

CacheKeys ==
  { getTileKey(tile.bounds, tile.zoom, tile.layerType) : tile \in CacheTiles }

CacheNext ==
  \/ \E k \in CacheKeys : CacheGet(k) /\ UNCHANGED mapVars
  \/ \E tile \in CacheTiles : \E features \in CacheFeatures :
       CacheSet(tile, features) /\ UNCHANGED mapVars
  \/ \E k \in CacheKeys : CacheDelete(k) /\ UNCHANGED mapVars
  \/ CacheClear /\ UNCHANGED mapVars
  \/ CacheGetStats /\ UNCHANGED mapVars
  \/ DbInitDone /\ UNCHANGED mapVars
  \/ DbInitFailed /\ UNCHANGED mapVars
  \/ \E i \in CacheCallIds : CacheRequestDone(i) /\ UNCHANGED mapVars
  \/ \E d \in ClockSteps : Tick(d) /\ UNCHANGED mapVars

SpecCache == Init /\ [][CacheNext]_vars

\* the state after construction in a browser whose database holds a record
\* written in an earlier session, at time 0
EvictInit ==
  LET tile == [bounds |-> B1, zoom |-> 115, layerType |-> "1"]
      old == getTileKey(tile.bounds, tile.zoom, tile.layerType)
  IN  /\ now = 0
      /\ storageAvailable = TRUE
      /\ endpointValid = TRUE
      /\ db = FALSE
      /\ store = [k \in TileKeys |->
                    IF k = old
                    THEN NewRecord(k, << <<"1", 1, 1>> >>, tile.zoom)
                    ELSE NoRecord]
      /\ activeRequests = [k \in TileKeys |-> 0]
      /\ viewportAbortController = 0
      /\ aborted = {}
      /\ calls = <<>>
      /\ fetches = <<>>
      /\ requestSeq = 0
      /\ currentMainType = NoType
      /\ layerData = [t \in {"1", "2", "3", NoType} |-> <<>>]
      /\ moveDebounceTimer = 0
      /\ cacheCalls = <<>>
      /\ utilCalls = <<>>

SpecEvict == EvictInit /\ [][CacheNext]_vars

\* `await this.cache.get(tileKey)` resumes for category i of call c: a hit
\* is the category's result; on a miss the category joins the fetch
\* registered for the key or starts one and registers it
CacheGetDone(c, i) ==
  LET layer == calls[c].layers[i]
      k == layer.tileKey
      f == Len(fetches) + 1
  IN  /\ layer.phase = "cacheGet"
      /\ db => ~MicrotaskPending
      /\ store' = IF TileCacheExpired(layer.snap)
                  THEN TileCacheDelete(store, k) ELSE store
      /\ IF TileCacheHit(layer.snap)
         THEN /\ calls' = [calls EXCEPT ![c].layers[i] =
                    [layer EXCEPT !.phase = "done", !.role = "cache",
                                  !.snap = NoRecord,
                                  !.val = layer.snap.features]]
              /\ UNCHANGED <<activeRequests, fetches>>
         ELSE IF HasActiveRequest(k)
         THEN /\ calls' = [calls EXCEPT ![c].layers[i] =
                    [layer EXCEPT !.phase = "await", !.role = "join",
                                  !.snap = NoRecord,
                                  !.src = activeRequests[k]]]
              /\ UNCHANGED <<activeRequests, fetches>>
         ELSE /\ calls' = [calls EXCEPT ![c].layers[i] =
                    [layer EXCEPT !.phase = "await", !.role = "start",
                                  !.snap = NoRecord,
                                  !.src = f]]
              /\ fetches' = Append(fetches, NewFetch(c, layer))
              /\ activeRequests' =
                   LET set == [activeRequests EXCEPT ![k] = f]
                   IN  IF NewFetch(c, layer).phase = "settled"
                       THEN FinallyDelete(set, k) ELSE set
      /\ UNCHANGED <<envVars, db, viewportAbortController, aborted>>

\* the fetcher of fetch f returns `features`: `.then` and `.finally` run
FetchReturns(f, features, pageFailed) ==
  LET fr == fetches[f]
  IN  /\ fetches' = [fetches EXCEPT ![f] =
            Returned([fr EXCEPT !.failed = pageFailed], features)]
      /\ store' = ThenStore(store, fr.signal, fr.tileKey, features, fr.zoom)
      /\ activeRequests' = FinallyDelete(activeRequests, fr.tileKey)

\* fault: a page loop that takes every page for a full one
HasMoreAlways(n, pagesize) == TRUE

\* hasMore = items.length === pagesize
HasMore(n, pagesize) == n = pagesize

\* fault: a fetcher for which only HTTP 200 is a page
PageSuccessOkOnly(status) == status = 200

\* _fetchPageWithRetry returns success: the response is ok (and its body is
\* JSON), or its status is 404, which stands for a page with no items
PageSuccess(status) == status \in {200, 404}

\* fault: a fetcher that retries an HTTP 500 without end
ShouldRetryAlways(status, retryCount) == status = 500

\* response.status === 500 && retryCount < MAX_RETRIES
ShouldRetry(status, retryCount) == status = 500 /\ retryCount < MAX_RETRIES

\* _fetchPageWithRetry gets the remote's answer to the page it requested
PageResponse(f, resp) ==
  LET fr == fetches[f]
      n == IF resp.status = 200 THEN resp.n ELSE 0
      acc == fr.allFeatures \o PageFeatures(fr.layerType, fr.pageNumber, n)
  IN  /\ ~MicrotaskPending
      /\ fr.phase = "fetch"
      /\ fr.signal \notin aborted
      /\ resp \in Responses(fr.pagesize)
      /\ IF PageSuccess(resp.status)
         THEN IF HasMore(n, fr.pagesize)
              THEN /\ fetches' = [fetches EXCEPT ![f] =
                         [fr EXCEPT !.allFeatures = acc,
                                    !.pageNumber = fr.pageNumber + 1,
                                    !.retryCount = 0,
                                    !.phase = "delay"]]
                   /\ UNCHANGED <<store, activeRequests>>
              ELSE FetchReturns(f, acc, FALSE)
         ELSE IF ShouldRetry(resp.status, fr.retryCount)
         THEN /\ fetches' = [fetches EXCEPT ![f] =
                    [fr EXCEPT !.retryCount = fr.retryCount + 1,
                               !.phase = "backoff"]]
              /\ UNCHANGED <<store, activeRequests>>
         ELSE FetchReturns(f, fr.allFeatures, TRUE)
      /\ UNCHANGED <<envVars, db, viewportAbortController, aborted, calls>>

\* fetch(url, {signal}) rejects with an AbortError once the signal is aborted
FetchAborted(f) ==
  LET fr == fetches[f]
  IN  /\ fr.phase = "fetch"
      /\ fr.signal \in aborted
      /\ FetchReturns(f, fr.allFeatures, FALSE)
      /\ UNCHANGED <<envVars, db, viewportAbortController, aborted, calls>>

\* fault: a fetcher that does not look at its signal when a timer elapses
SignalAbortedIgnored(fr) == FALSE

\* signal.aborted, tested at the top of the page loop, and by fetch(), which
\* rejects at once when it is given an aborted signal
SignalAborted(fr) == fr.signal \in aborted

\* the retry backoff or the 50 ms delay between pages elapses: the page
\* loop ends at the page budget, throws on an aborted signal, or requests
\* the page
TimerFired(f) ==
  LET fr == fetches[f]
  IN  /\ ~MicrotaskPending
      /\ fr.phase \in {"backoff", "delay"}
      /\ IF \/ fr.phase = "delay" /\ fr.pageNumber > fr.maxPages
            \/ SignalAborted(fr)
         THEN FetchReturns(f, fr.allFeatures, FALSE)
         ELSE /\ fetches' = [fetches EXCEPT ![f] =
                    [fr EXCEPT !.phase = "fetch"]]
              /\ UNCHANGED <<store, activeRequests>>
      /\ UNCHANGED <<envVars, db, viewportAbortController, aborted, calls>>

RECURSIVE Flat(_)
Flat(lists) ==
  IF lists = <<>> THEN <<>> ELSE Head(lists) \o Flat(Tail(lists))

\* Promise.all(layerPromises) settles and loadViewportData returns
CallReturn(c) ==
  LET call == calls[c]
      done == [i \in DOMAIN call.layers |->
                 [call.layers[i] EXCEPT !.phase = "done",
                                        !.val = LayerValue(call.layers[i])]]
  IN  /\ call.status = "pending"
      /\ \A i \in DOMAIN call.layers : LayerReady(call.layers[i])
      /\ calls' = [calls EXCEPT ![c] =
           IF \E i \in DOMAIN call.layers : LayerRejected(call.layers[i])
           THEN [call EXCEPT !.status = "rejected"]
           ELSE [call EXCEPT
                   !.status = "resolved",
                   !.cancelled = call.signal \in aborted,
                   !.layers = done,
                   !.result = Flat([i \in DOMAIN done |-> done[i].val])]]
      /\ UNCHANGED <<envVars, cacheVars, activeRequests,
                     viewportAbortController, aborted, fetches>>

(***************************************************************************)
(* The loader, called directly                                             *)
(***************************************************************************)
Load(r) ==
  /\ ~MicrotaskPending
  /\ Len(calls) < MaxCalls
  /\ loadViewportData(r, 0)
  /\ UNCHANGED mapVars

AbortAll == ~MicrotaskPending /\ abortAll /\ UNCHANGED mapVars

Next ==
  \/ \E r \in Requests : Load(r)
  \/ AbortAll
  \/ DbInitDone /\ UNCHANGED mapVars
  \/ \E c \in CallIds : \E i \in DOMAIN calls[c].layers :
       CacheGetDone(c, i) /\ UNCHANGED mapVars
  \/ \E f \in FetchIds : \E resp \in Responses(fetches[f].pagesize) :
       PageResponse(f, resp) /\ UNCHANGED mapVars
  \/ \E f \in FetchIds : FetchAborted(f) /\ UNCHANGED mapVars
  \/ \E f \in FetchIds : TimerFired(f) /\ UNCHANGED mapVars
  \/ \E c \in CallIds : CallReturn(c) /\ UNCHANGED mapVars

Spec == Init /\ [][Next]_vars

(***************************************************************************)
(* The loader, called with no category chosen                              *)
(***************************************************************************)
SiblingLoad(r) ==
  /\ ~MicrotaskPending
  /\ Len(calls) < MaxSiblingCalls
  /\ loadViewportData(r, 0)
  /\ UNCHANGED mapVars

SiblingNext ==
  \/ \E r \in SiblingRequests : SiblingLoad(r)
  \/ AbortAll
  \/ DbInitDone /\ UNCHANGED mapVars
  \/ \E c \in CallIds : \E i \in DOMAIN calls[c].layers :
       CacheGetDone(c, i) /\ UNCHANGED mapVars
  \/ \E f \in FetchIds : \E resp \in Responses(fetches[f].pagesize) :
       PageResponse(f, resp) /\ UNCHANGED mapVars
  \/ \E f \in FetchIds : FetchAborted(f) /\ UNCHANGED mapVars
  \/ \E f \in FetchIds : TimerFired(f) /\ UNCHANGED mapVars
  \/ \E c \in CallIds : CallReturn(c) /\ UNCHANGED mapVars

SpecSiblings == Init /\ [][SiblingNext]_vars

(***************************************************************************)
(* The paginated fetcher, with a budget of three pages                     *)
(***************************************************************************)
FetcherLoad(r) ==
  /\ ~MicrotaskPending
  /\ Len(calls) < MaxFetcherCalls
  /\ loadViewportData(r, 0)
  /\ UNCHANGED mapVars

FetcherNext ==
  \/ \E r \in FetcherRequests : FetcherLoad(r)
  \/ AbortAll
  \/ DbInitDone /\ UNCHANGED mapVars
  \/ \E c \in CallIds : \E i \in DOMAIN calls[c].layers :
       CacheGetDone(c, i) /\ UNCHANGED mapVars
  \/ \E f \in FetchIds : \E resp \in Responses(fetches[f].pagesize) :
       PageResponse(f, resp) /\ UNCHANGED mapVars
  \/ \E f \in FetchIds : FetchAborted(f) /\ UNCHANGED mapVars
  \/ \E f \in FetchIds : TimerFired(f) /\ UNCHANGED mapVars
  \/ \E c \in CallIds : CallReturn(c) /\ UNCHANGED mapVars

SpecFetcher == Init /\ [][FetcherNext]_vars

(***************************************************************************)
(* The paginated fetcher, on an event loop that runs what is ready         *)
(***************************************************************************)
\* as long as something is ready some of it runs: a page request is
\* answered, or rejects once its signal is aborted, a timer elapses, an
\* IndexedDB request completes, a promise continuation runs
FetcherFairness ==
  WF_vars( \/ DbInitDone /\ UNCHANGED mapVars
           \/ \E c \in CallIds : \E i \in DOMAIN calls[c].layers :
                CacheGetDone(c, i) /\ UNCHANGED mapVars
           \/ \E f \in FetchIds : \E resp \in Responses(fetches[f].pagesize) :
                PageResponse(f, resp) /\ UNCHANGED mapVars
           \/ \E f \in FetchIds : FetchAborted(f) /\ UNCHANGED mapVars
           \/ \E f \in FetchIds : TimerFired(f) /\ UNCHANGED mapVars
           \/ \E c \in CallIds : CallReturn(c) /\ UNCHANGED mapVars )

SpecFetcherFair == Init /\ [][FetcherNext]_vars /\ FetcherFairness

(***************************************************************************)
(* The paginated fetcher, on a remote whose pages are full or not found    *)
(***************************************************************************)
NotFoundNext ==
  \/ \E r \in FetcherRequests : FetcherLoad(r)
  \/ AbortAll
  \/ DbInitDone /\ UNCHANGED mapVars
  \/ \E c \in CallIds : \E i \in DOMAIN calls[c].layers :
       CacheGetDone(c, i) /\ UNCHANGED mapVars
  \/ \E f \in FetchIds : \E resp \in NotFoundResponses(fetches[f].pagesize) :
       PageResponse(f, resp) /\ UNCHANGED mapVars
  \/ \E f \in FetchIds : FetchAborted(f) /\ UNCHANGED mapVars
  \/ \E f \in FetchIds : TimerFired(f) /\ UNCHANGED mapVars
  \/ \E c \in CallIds : CallReturn(c) /\ UNCHANGED mapVars

SpecNotFound == Init /\ [][NotFoundNext]_vars

(***************************************************************************)
(* The loader and its cache statistics, as time passes                     *)
(***************************************************************************)
StatsLoad(r) ==
  /\ ~MicrotaskPending
  /\ Len(calls) < MaxStatsLoads
  /\ loadViewportData(r, 0)
  /\ UNCHANGED mapVars

\* the remote answers with pages, and the clock is looked at once the
\* cache duration has gone by
StatsResponses(pagesize) ==
  { resp \in Responses(pagesize) : resp.status = 200 /\ resp.n # 0 }

StatsClockSteps == { CACHE_DURATION + 2 }

\* ViewportDataLoader.getCacheStats()
getCacheStats ==
  /\ Len(cacheCalls) < MaxStatsLoads
  /\ CacheGetStats
  /\ UNCHANGED mapVars

StatsNext ==
  \/ \E r \in SiblingRequests : StatsLoad(r)
  \/ getCacheStats
  \/ \E i \in CacheCallIds : CacheRequestDone(i) /\ UNCHANGED mapVars
  \/ \E d \in StatsClockSteps : Tick(d) /\ UNCHANGED mapVars
  \/ AbortAll
  \/ DbInitDone /\ UNCHANGED mapVars
  \/ \E c \in CallIds : \E i \in DOMAIN calls[c].layers :
       CacheGetDone(c, i) /\ UNCHANGED mapVars
  \/ \E f \in FetchIds : \E resp \in StatsResponses(fetches[f].pagesize) :
       PageResponse(f, resp) /\ UNCHANGED mapVars
  \/ \E f \in FetchIds : FetchAborted(f) /\ UNCHANGED mapVars
  \/ \E f \in FetchIds : TimerFired(f) /\ UNCHANGED mapVars
  \/ \E c \in CallIds : CallReturn(c) /\ UNCHANGED mapVars

SpecStats == Init /\ [][StatsNext]_vars

(***************************************************************************)
(* The loader and clearCache                                               *)
(***************************************************************************)
\* ViewportDataLoader.clearCache(): TileCache.clear() and nothing else; the
\* call notes how many fetches had been started when it was made
clearCache ==
  LET call == [op |-> "clear", tileKey |-> <<>>, features |-> <<>>,
               zoom |-> 0, phase |-> "init", snap |-> NoRecord,
               hit |-> FALSE, val |-> <<>>, totalTiles |-> 0,
               started |-> Len(fetches)]
  IN  /\ ~MicrotaskPending
      /\ Len(cacheCalls) < MaxStatsLoads
      /\ IF db
         THEN /\ cacheCalls' = Append(cacheCalls, CacheCallRuns(call, store))
              /\ store' = CacheCallStore(call, store)
         ELSE /\ cacheCalls' = Append(cacheCalls,
                   IF storageAvailable THEN call ELSE CacheCallNoDb(call))
              /\ store' = store
      /\ UNCHANGED <<now, storageAvailable, endpointValid, utilCalls, db,
                     loaderVars, mapVars>>

ClearNext ==
  \/ \E r \in SiblingRequests : StatsLoad(r)
  \/ clearCache
  \/ AbortAll
  \/ DbInitDone /\ UNCHANGED mapVars
  \/ \E c \in CallIds : \E i \in DOMAIN calls[c].layers :
       CacheGetDone(c, i) /\ UNCHANGED mapVars
  \/ \E f \in FetchIds : \E resp \in StatsResponses(fetches[f].pagesize) :
       PageResponse(f, resp) /\ UNCHANGED mapVars
  \/ \E f \in FetchIds : FetchAborted(f) /\ UNCHANGED mapVars
  \/ \E f \in FetchIds : TimerFired(f) /\ UNCHANGED mapVars
  \/ \E c \in CallIds : CallReturn(c) /\ UNCHANGED mapVars

SpecClear == Init /\ [][ClearNext]_vars

(***************************************************************************)
(* The helpers of SpatialQueryUtils, applied to arguments                  *)
(***************************************************************************)
\* getTileKey(bounds, zoom, layerType) is applied
ApplyGetTileKey(bounds, zoom, layerType) ==
  /\ Len(utilCalls) < MaxUtilCalls
  /\ utilCalls' = Append(utilCalls,
       [bounds |-> bounds, zoom |-> zoom, layerType |-> layerType,
        result |-> getTileKey(bounds, zoom, layerType)])
  /\ UNCHANGED <<now, storageAvailable, endpointValid, cacheCalls,
                 cacheVars, loaderVars, mapVars>>

TileKeyNext ==
  \E bounds \in KeyBounds : \E zoom \in KeyZooms : \E layerType \in KeyTypes :
    ApplyGetTileKey(bounds, zoom, layerType)

SpecTileKey == Init /\ [][TileKeyNext]_vars

\* getLayersForZoom(zoom, userSelectedType) is applied
ApplyGetLayersForZoom(zoom, userSelectedType) ==
  /\ Len(utilCalls) < MaxUtilCalls
  /\ utilCalls' = Append(utilCalls,
       [zoom |-> zoom, userSelectedType |-> userSelectedType,
        result |-> getLayersForZoom(zoom, userSelectedType)])
  /\ UNCHANGED <<now, storageAvailable, endpointValid, cacheCalls,
                 cacheVars, loaderVars, mapVars>>

LayersNext ==
  \E zoom \in LayerZooms : \E userSelectedType \in LayerTypes :
    ApplyGetLayersForZoom(zoom, userSelectedType)

SpecLayers == Init /\ [][LayersNext]_vars

\* chooseSpatialStrategy(greenCodeType, zoom, bounds) is applied
ApplyChooseSpatialStrategy(greenCodeType, zoom, bounds) ==
  /\ Len(utilCalls) < MaxStrategyCalls
  /\ utilCalls' = Append(utilCalls,
       [greenCodeType |-> greenCodeType, zoom |-> zoom, bounds |-> bounds,
        result |-> chooseSpatialStrategy(greenCodeType, zoom, bounds)])
  /\ UNCHANGED <<now, storageAvailable, endpointValid, cacheCalls,
                 cacheVars, loaderVars, mapVars>>

StrategyNext ==
  \E greenCodeType \in StrategyTypes : \E zoom \in StrategyZooms :
    \E bounds \in StrategyBounds :
      ApplyChooseSpatialStrategy(greenCodeType, zoom, bounds)

SpecStrategy == Init /\ [][StrategyNext]_vars

\* one category is fetched at a zoom: _fetchSingleLayer takes its page
\* budget, _fetchViewportData its page size and _itemToFeature its geometry
\* policy
ApplyPagePolicy(zoom) ==
  /\ Len(utilCalls) < MaxUtilCalls
  /\ utilCalls' = Append(utilCalls,
       [zoom |-> zoom,
        pagesize |-> getOptimalPageSize(zoom),
        maxPages |-> getMaxPagesForZoom(zoom),
        geoStrategy |-> getGeometryStrategy(zoom)])
  /\ UNCHANGED <<now, storageAvailable, endpointValid, cacheCalls,
                 cacheVars, loaderVars, mapVars>>

PagePolicyNext == \E zoom \in PolicyZooms : ApplyPagePolicy(zoom)

SpecPagePolicy == Init /\ [][PagePolicyNext]_vars

(***************************************************************************)
(* The geometry decoder, applied to arguments                              *)
(***************************************************************************)
\* the state in which a method of the decoder is applied to arguments: the
\* loader is constructed with a valid endpoint
DecoderInit == Init /\ storageAvailable /\ endpointValid

\* _douglasPeucker(points, tolerance) is applied
ApplyDouglasPeucker(points, tolerance) ==
  /\ utilCalls' = << [points |-> points, tolerance |-> tolerance,
                      result |-> douglasPeucker(points, tolerance)] >>
  /\ UNCHANGED <<now, storageAvailable, endpointValid, cacheCalls,
                 cacheVars, loaderVars, mapVars>>

\* one application is looked at
SimplifyNext ==
  /\ utilCalls = <<>>
  /\ \E n \in 2..MaxPoints : \E points \in [1..n -> SimplifyCoords] :
       \E tolerance \in SimplifyTolerances :
         ApplyDouglasPeucker(points, tolerance)

SpecSimplify == DecoderInit /\ [][SimplifyNext]_vars

\* a page of a category is decoded by _fetchViewportData: every item goes
\* through _itemToFeature and the nulls are filtered out; mapped is the
\* array before the filter
DecodePage(items, zoom, lang) ==
  /\ utilCalls' = << [items |-> items, zoom |-> zoom, lang |-> lang,
                      mapped |-> mapItemToFeature(items, zoom, lang),
                      features |-> filterBoolean(
                                     mapItemToFeature(items, zoom, lang))] >>
  /\ UNCHANGED <<now, storageAvailable, endpointValid, cacheCalls,
                 cacheVars, loaderVars, mapVars>>

\* one page is looked at
DecodeNext ==
  /\ utilCalls = <<>>
  /\ \E items \in Pages : \E zoom \in DecodeZooms : \E lang \in Langs :
       DecodePage(items, zoom, lang)

SpecDecode == DecoderInit /\ [][DecodeNext]_vars

\* _extractProperties(item, zoom) is applied by a loader of language lang
ApplyExtractProperties(item, zoom, lang) ==
  /\ Len(utilCalls) < MaxUtilCalls
  /\ utilCalls' = Append(utilCalls,
       [item |-> item, zoom |-> zoom, lang |-> lang,
        result |-> extractProperties(item, zoom, lang)])
  /\ UNCHANGED <<now, storageAvailable, endpointValid, cacheCalls,
                 cacheVars, loaderVars, mapVars>>

PropertiesNext ==
  \E item \in {FullRecord, BareRecord, GermanRecord} :
    \E zoom \in DecodeZooms : \E lang \in Langs :
      ApplyExtractProperties(item, zoom, lang)

SpecProperties == DecoderInit /\ [][PropertiesNext]_vars

(***************************************************************************)
(* Loader instances of several languages on one database                   *)
(***************************************************************************)
\* a loader instance of language lang, newly constructed on the shared
\* database, loads category '1' of one tile and nothing interferes: the
\* lookup, and on a miss the fetch of the one page `items` the remote has
\* for the tile, its decoding with this.lang and the write
LanguageLoad(lang, items, zoom) ==
  LET k == getTileKey(B1, zoom, "1")
      r == IF storageAvailable THEN store[k] ELSE NoRecord
      hit == TileCacheHit(r)
      features == IF hit THEN r.features
                  ELSE filterBoolean(mapItemToFeature(items, zoom, lang))
  IN  /\ Len(utilCalls) < MaxUtilCalls
      /\ endpointValid
      /\ db' = storageAvailable
      /\ store' = IF hit \/ ~storageAvailable THEN store
                  ELSE storePut(store, k, NewRecord(k, features, zoom))
      /\ utilCalls' = Append(utilCalls,
           [lang |-> lang, items |-> items, zoom |-> zoom, tileKey |-> k,
            hit |-> hit, features |-> features])
      /\ UNCHANGED <<now, storageAvailable, endpointValid, cacheCalls,
                     loaderVars, mapVars>>

LanguageNext ==
  \E lang \in Langs : \E items \in Pages : \E zoom \in {115, 145} :
    LanguageLoad(lang, items, zoom)

SpecLanguage == Init /\ [][LanguageNext]_vars

(***************************************************************************)
(* The tile service: /refresh, one batch of pages a call                   *)
(***************************************************************************)
\* CONFIG.SUPPORTED_LANGS, and a language outside of it
SUPPORTED_LANGS == {"en", "it", "de"}
RefreshLangs == {"en", "fr"}

\* the type chunks of a language, in the order getAllFeatures reads them
ChunkTypes == <<"1", "2", "3", "other">>

\* what the remote answers to the request of one page
RemoteAnswers == {"full", "short", "empty", "notfound", "error"}

\* the GreenCodeType of the remote's records; "" is a record without one
GreenCodeTypes == <<"1", "2", "3", "">>

\* the i-th record of a page of the remote; some records have no geometry
RemoteItem(page, i) ==
  [Id |-> <<page, i>>,
   GreenCodeType |-> GreenCodeTypes[((page + i) % 4) + 1],
   Geo |-> (page + i) % 5 # 0]

\* json.Items of the answer to a page
RemoteItems(page, answer) ==
  IF answer = "full" THEN [i \in 1..PAGESIZE |-> RemoteItem(page, i)]
  ELSE IF answer = "short" THEN [i \in 1..(PAGESIZE - 1) |-> RemoteItem(page, i)]
  ELSE <<>>

\* itemToGeoJSON: null without a geometry; properties.type is
\* String(item.GreenCodeType || "")
itemToGeoJSON(item) ==
  IF ~item.Geo THEN NoFeature
  ELSE [type |-> "Feature",
        properties |-> [id |-> item.Id, type |-> item.GreenCodeType]]

\* the KV namespace of one language: the progress key, the type chunks and
\* the metadata key; <<>> is an absent key
NoKV ==
  [progress |-> <<>>,
   chunks |-> [t \in {ChunkTypes[i] : i \in DOMAIN ChunkTypes} |-> <<>>],
   metadata |-> <<>>]

\* the chunk saveFeaturesByType files a feature under
byTypeOf(feature) ==
  IF feature.properties.type \in {"1", "2", "3", "other"}
  THEN feature.properties.type ELSE "other"

\* saveFeaturesByType: the features of the batch are grouped by type and
\* each non-empty group is put under the key of its type
saveFeaturesByType(chunks, features) ==
  [t \in DOMAIN chunks |->
     LET typeFeatures == SelectSeq(features, LAMBDA f : byTypeOf(f) = t)
     IN  IF Len(typeFeatures) = 0 THEN chunks[t] ELSE typeFeatures]

\* getAllFeatures: the features of the four chunks, in the order of types
getAllFeatures(chunks) ==
  chunks["1"] \o chunks["2"] \o chunks["3"] \o chunks["other"]

\* the loop of fetchBatchFromODH from `page` on; `requested` are the pages
\* asked of the remote so far and remote[n] is its answer to the n-th
\* request of the batch
RECURSIVE fetchPages(_, _, _, _, _)
fetchPages(page, endPage, remote, allFeatures, requested) ==
  IF page > endPage
  THEN [features |-> allFeatures, lastPage |-> page, requested |-> requested]
  ELSE LET answer == remote[Len(requested) + 1]
           items == RemoteItems(page, answer)
           features == filterBoolean([i \in DOMAIN items |->
                                        itemToGeoJSON(items[i])])
           asked == Append(requested, page)
       IN  IF answer \in {"notfound", "error"} \/ Len(items) = 0
           THEN [features |-> allFeatures, lastPage |-> page,
                 requested |-> asked]
           ELSE IF Len(items) < PAGESIZE
           THEN [features |-> allFeatures \o features, lastPage |-> page,
                 requested |-> asked]
           ELSE fetchPages(page + 1, endPage, remote,
                           allFeatures \o features, asked)

\* fetchBatchFromODH(lang, startPage, endPage)
fetchBatchFromODH(startPage, endPage, remote) ==
  fetchPages(startPage, endPage, remote, <<>>, <<>>)

\* getProgress: the stored progress, or the first page when there is none
getProgress(kv) ==
  IF kv.progress = <<>>
  THEN [currentPage |-> 1, totalFeatures |-> 0, isComplete |-> FALSE]
  ELSE kv.progress[1]

\* saveProgress
saveProgress(kv, progress) == [kv EXCEPT !.progress = << progress >>]

\* fault: a handler that fetches the next batch although progress.isComplete
AlreadyCompleteNever(progress) == FALSE
\* if (progress.isComplete): "Refresh already complete"
AlreadyComplete(progress) == progress.isComplete

\* handleBatchedRefresh, run to its response on the namespace kv: `cleared`
\* is the namespace after the reset step, `fetched` tells that a batch was
\* loaded, `requested` are the pages asked of the remote and `features` the
\* features of the batch
handleBatchedRefresh(kv, lang, reset, remote) ==
  IF lang \notin SUPPORTED_LANGS
  THEN [status |-> 400, kv |-> kv, cleared |-> kv, fetched |-> FALSE,
        requested |-> <<>>, features |-> <<>>]
  ELSE
    LET progress == IF reset
                    THEN [currentPage |-> 1, totalFeatures |-> 0,
                          isComplete |-> FALSE]
                    ELSE getProgress(kv)
        cleared == IF reset
                   THEN [saveProgress(kv, progress)
                           EXCEPT !.chunks = NoKV.chunks]
                   ELSE kv
    IN  IF AlreadyComplete(progress)
        THEN [status |-> 200, kv |-> cleared, cleared |-> cleared,
              fetched |-> FALSE, requested |-> <<>>, features |-> <<>>]
        ELSE
          LET startPage == progress.currentPage
              endPage == Min(startPage + BATCH_SIZE - 1, PageLimit)
              batch == fetchBatchFromODH(startPage, endPage, remote)
              chunks == saveFeaturesByType(cleared.chunks, batch.features)
              totalFeatures == Len(getAllFeatures(chunks))
              isComplete == batch.lastPage >= PageLimit
                              \/ Len(batch.features) = 0
              saved == saveProgress([cleared EXCEPT !.chunks = chunks],
                         [currentPage |-> batch.lastPage + 1,
                          totalFeatures |-> totalFeatures,
                          isComplete |-> isComplete])
          IN  [status |-> 200,
               kv |-> IF isComplete
                      THEN [saved EXCEPT !.metadata =
                              << [totalFeatures |-> totalFeatures] >>]
                      ELSE saved,
               cleared |-> cleared, fetched |-> TRUE,
               requested |-> batch.requested, features |-> batch.features]

\* the namespace as the /refresh calls made so far have left it
RefreshKV == IF utilCalls = <<>> THEN NoKV ELSE utilCalls[Len(utilCalls)].kv

\* GET /refresh?lang=..&reset=.. served to its response, one call after the
\* other as the auto-refresh script makes them.  The remote answers "full"
\* to the first `full` requests of the batch and `last` from there on.
Refresh(lang, reset, full, last) ==
  LET remote == [n \in 1..BATCH_SIZE |-> IF n <= full THEN "full" ELSE last]
      r == handleBatchedRefresh(RefreshKV, lang, reset, remote)
  IN  /\ Len(utilCalls) < MaxRefreshCalls
      /\ utilCalls' = Append(utilCalls,
           [lang |-> lang, reset |-> reset, before |-> RefreshKV,
            status |-> r.status, cleared |-> r.cleared,
            fetched |-> r.fetched, requested |-> r.requested,
            features |-> r.features, kv |-> r.kv])
      /\ UNCHANGED <<now, storageAvailable, endpointValid, cacheCalls,
                     cacheVars, loaderVars, mapVars>>

RefreshNext ==
  \E lang \in RefreshLangs : \E reset \in BOOLEAN :
    \E full \in 0..BATCH_SIZE : \E last \in RemoteAnswers \ {"full"} :
      Refresh(lang, reset, full, last)

SpecRefresh == Init /\ [][RefreshNext]_vars

(***************************************************************************)
(* UrbanGreenMapV2                                                         *)
(***************************************************************************)
\* UrbanGreenMapV2.loadViewportData up to its await: the sequence number is
\* taken, the loader's work is aborted and the loader is called with the
\* map's bounds and zoom and the selected category
MapLoadViewportData(view, mainType) ==
  /\ Len(calls) < MaxMapCalls
  /\ requestSeq' = requestSeq + 1
  /\ loadViewportData([bounds |-> view.bounds, zoom |-> view.zoom,
                       userSelectedType |-> mainType, pagesize |-> 0],
                      requestSeq + 1)

\* the change handler of #mainTypeSelect: the layers are cleared and, with
\* a category selected, the viewport is loaded
MapSelectMainType(t) ==
  /\ ~MicrotaskPending
  /\ t # currentMainType
  /\ currentMainType' = t
  /\ layerData' = [k \in DOMAIN layerData |->
                     IF k = NoType THEN layerData[k] ELSE <<>>]
  /\ IF t # NoType
     THEN \E view \in MapViews : MapLoadViewportData(view, t)
     ELSE UNCHANGED <<requestSeq, envVars, cacheVars, loaderVars>>
  /\ UNCHANGED moveDebounceTimer

\* the map's movestart handler
MapMoveStart ==
  /\ ~MicrotaskPending
  /\ abortAll
  /\ UNCHANGED mapVars

\* fault: a clearTimeout that cancels nothing
clearTimeoutNothing(pending) == pending

\* clearTimeout(this.moveDebounceTimer): the timer the field holds, which is
\* the one set last, is cancelled if it is still pending
clearTimeout(pending) == IF pending > 0 THEN pending - 1 ELSE 0

\* onMapMove (moveend, zoomend): the pending timer is cleared, a new one set
MapMoveEnd ==
  /\ ~MicrotaskPending
  /\ moveDebounceTimer' = clearTimeout(moveDebounceTimer) + 1
  /\ UNCHANGED <<envVars, cacheVars, loaderVars, requestSeq, currentMainType,
                 layerData>>

\* the debounce timer's callback
MapDebounceFired ==
  /\ ~MicrotaskPending
  /\ moveDebounceTimer > 0
  /\ moveDebounceTimer' = moveDebounceTimer - 1
  /\ IF currentMainType # NoType
     THEN \E view \in MapViews : MapLoadViewportData(view, currentMainType)
     ELSE UNCHANGED <<requestSeq, envVars, cacheVars, loaderVars>>
  /\ UNCHANGED <<currentMainType, layerData>>

\* fault: a component that takes no result for stale
NeverStale(requestId) == FALSE

\* requestId !== this._requestSeq
StaleRequest(requestId) == requestId # requestSeq

\* UrbanGreenMapV2.loadViewportData after its await: a stale result is
\* dropped, any other becomes the layer data of the selected category
MapApply(c) ==
  /\ calls[c].status = "resolved"
  /\ calls[c].applied = "no"
  /\ IF StaleRequest(calls[c].requestId)
     THEN /\ calls' = [calls EXCEPT ![c].applied = "discarded"]
          /\ UNCHANGED layerData
     ELSE /\ calls' = [calls EXCEPT ![c].applied = "applied"]
          /\ layerData' = [layerData EXCEPT ![currentMainType] =
                             calls[c].result]
  /\ UNCHANGED <<envVars, cacheVars, activeRequests, viewportAbortController,
                 aborted, fetches, requestSeq, currentMainType,
                 moveDebounceTimer>>

MapNext ==
  \/ \E t \in MapTypes : MapSelectMainType(t)
  \/ MapMoveStart
  \/ MapMoveEnd
  \/ MapDebounceFired
  \/ \E c \in CallIds : MapApply(c)
  \/ DbInitDone /\ UNCHANGED mapVars
  \/ \E c \in CallIds : \E i \in DOMAIN calls[c].layers :
       CacheGetDone(c, i) /\ UNCHANGED mapVars
  \/ \E f \in FetchIds : \E resp \in Responses(fetches[f].pagesize) :
       PageResponse(f, resp) /\ UNCHANGED mapVars
  \/ \E f \in FetchIds : FetchAborted(f) /\ UNCHANGED mapVars
  \/ \E f \in FetchIds : TimerFired(f) /\ UNCHANGED mapVars
  \/ \E c \in CallIds : CallReturn(c) /\ UNCHANGED mapVars

SpecMap == Init /\ [][MapNext]_vars

C2_JoinerReceivesFeatures ==
  \A c \in CallIds : \A i \in DOMAIN calls[c].layers :
    LET layer == calls[c].layers[i]
    IN  ( /\ layer.role = "join"
          /\ calls[c].signal \notin aborted
          /\ fetches[layer.src].phase = "settled"
          /\ fetches[layer.src].allFeatures # <<>> )
        => fetches[layer.src].out = fetches[layer.src].allFeatures

\* C3: the sequence number grows by one with every load the component
\* starts, and the result of a load that is not the latest one started is
\* discarded when it arrives: it leaves layerData as it is.
C3_StaleSuppression ==
  [][ /\ requestSeq' >= requestSeq
      /\ Len(calls') > Len(calls) =>
           /\ requestSeq' = requestSeq + 1
           /\ calls'[Len(calls')].requestId = requestSeq'
           /\ \A c \in CallIds : calls[c].requestId < requestSeq'
      /\ \A c \in CallIds :
           ( /\ c < Len(calls)
             /\ calls[c].applied = "no"
             /\ calls'[c].applied # "no" )
           => /\ calls'[c].applied = "discarded"
              /\ layerData' = layerData
    ]_vars

\* load #1 returned features after load #2 had started, and they were
\* discarded
C3_StaleResultDiscarded ==
  \E c \in CallIds :
    /\ c < Len(calls)
    /\ calls[c].applied = "discarded"
    /\ calls[c].result # <<>>

\* C4: when the fetcher of a fetch returns and the signal of the call that
\* started it is not aborted, the features it returned become the cache
\* record of its tile key (given a database); when the signal is aborted,
\* no record is written or changed, so partial data never reaches the cache.
C4_CacheWriteUnlessCancelled ==
  [][ \A f \in 1..Len(fetches') :
        LET fr == fetches'[f]
            running == {"fetch", "delay", "backoff"}
        IN  ( /\ f \in FetchIds => fetches[f].phase \in running
              /\ fr.phase \notin running
              /\ fr.outcome # "error" )
            => IF fr.signal \in aborted
               THEN \A k \in TileKeys :
                      store'[k].present => store'[k] = store[k]
               ELSE db => /\ store'[fr.tileKey].present
                          /\ store'[fr.tileKey].features = fr.allFeatures
                          /\ store'[fr.tileKey].timestamp = now
                          /\ store'[fr.tileKey].zoom = fr.zoom
    ]_vars

\* a fetch that had features when its call was cancelled has ended, and the
\* open database holds no record for its key
C4_PartialDataNotCached ==
  \E f \in FetchIds :
    /\ fetches[f].outcome = "aborted"
    /\ fetches[f].allFeatures # <<>>
    /\ db
    /\ ~store[fetches[f].tileKey].present

C6_ActiveRequestsTracksFetches ==
  /\ [](\A k \in TileKeys :
          activeRequests[k] # 0 =>
            /\ activeRequests[k] \in FetchIds
            /\ fetches[activeRequests[k]].tileKey = k
            /\ fetches[activeRequests[k]].phase # "settled")
  /\ [](\A f \in FetchIds :
          fetches[f].phase # "settled" =>
            activeRequests[fetches[f].tileKey] = f)
  /\ [][ /\ \A k \in TileKeys :
              ( /\ activeRequests[k] # 0
                /\ activeRequests'[k] # activeRequests[k] )
              => /\ activeRequests'[k] = 0
                 /\ fetches'[activeRequests[k]].phase = "settled"
         /\ \A f \in FetchIds :
              fetches[f].phase = "settled" => fetches'[f].phase = "settled"
       ]_vars

\* a cancelled fetch and a completed one have both settled and the table
\* is empty
C6_TableEmptyAfterSettling ==
  /\ \E f \in FetchIds :
       fetches[f].phase = "settled" /\ fetches[f].outcome = "aborted"
  /\ \E f \in FetchIds :
       fetches[f].phase = "settled" /\ fetches[f].outcome = "cached"
  /\ \A k \in TileKeys : activeRequests[k] = 0

C8_NeverRejects ==
  \A c \in CallIds :
    /\ calls[c].status # "rejected"
    /\ calls[c].status = "resolved" =>
         /\ calls[c].result =
              Flat([i \in DOMAIN calls[c].layers |-> calls[c].layers[i].val])
         /\ \A i \in DOMAIN calls[c].layers :
              LET layer == calls[c].layers[i]
              IN  layer.src # 0 =>
                    /\ layer.val = IF fetches[layer.src].outcome = "cached"
                                   THEN fetches[layer.src].allFeatures
                                   ELSE <<>>
                    /\ ( fetches[layer.src].failed
                         /\ fetches[layer.src].allFeatures = <<>> )
                       => layer.val = <<>>

\* a call has returned the features of one category although every request
\* of the other category's fetch failed
C8_SiblingSurvivesFailure ==
  \E c \in CallIds :
    /\ calls[c].status = "resolved"
    /\ Len(calls[c].layers) = 2
    /\ fetches[calls[c].layers[1].src].failed
    /\ calls[c].layers[1].val = <<>>
    /\ calls[c].layers[2].val # <<>>
    /\ calls[c].result = calls[c].layers[2].val

\* C9: with the database open, a load made after a load of the same
\* viewport, zoom and category has returned uncancelled requests no page
\* from the remote.
C9_NoRequestOnReload ==
  \A c, d \in CallIds :
    ( /\ c < d
      /\ db
      /\ calls[c].status = "resolved"
      /\ ~calls[c].cancelled
      /\ calls[c].bounds = calls[d].bounds
      /\ calls[c].zoom = calls[d].zoom
      /\ calls[c].userSelectedType = calls[d].userSelectedType )
    => \A j \in DOMAIN calls[d].layers :
         calls[d].layers[j].role = "start" =>
           ~fetches[calls[d].layers[j].src].requested

\* C10: a step that starts a call leaves the previous controller's signal
\* aborted and installs the new call's controller, never used before and
\* not aborted, while the new call has made no cache lookup resume and no
\* fetch; the controller is otherwise only ever reset to null, by abortAll,
\* which aborts the signal of the controller it found and nothing else.
C10_CancelPrevious ==
  [][ /\ Len(calls') > Len(calls) =>
           LET new == calls'[Len(calls')]
           IN  /\ viewportAbortController # 0 =>
                    viewportAbortController \in aborted'
               /\ \A c \in CallIds : calls[c].signal \in aborted'
               /\ viewportAbortController' = new.signal
               /\ new.signal \notin aborted'
               /\ \A c \in CallIds : calls[c].signal # new.signal
               /\ \A i \in DOMAIN new.layers :
                    /\ new.layers[i].phase \in {"init", "cacheGet"}
                    /\ new.layers[i].src = 0
               /\ fetches' = fetches
      /\ Len(calls') = Len(calls) =>
           /\ viewportAbortController' \in {viewportAbortController, 0}
           /\ aborted' = IF viewportAbortController' # viewportAbortController
                         THEN aborted \cup {viewportAbortController}
                         ELSE aborted
    ]_vars

\* a second call has started: the first call's signal is aborted, the
\* second call's is current and not aborted, and its lookup has not resumed
C10_SecondCallStarted ==
  /\ Len(calls) = 2
  /\ calls[1].signal \in aborted
  /\ viewportAbortController = calls[2].signal
  /\ calls[2].signal \notin aborted
  /\ calls[2].layers[1].phase = "cacheGet"
  /\ calls[1].status = "pending"
\* C11: the fetcher requests pages 1, 2, 3, ... in order.  The first request
\* of a fetch is for page 1; a later page p+1 is requested only after page p
\* was answered by a full page, the delay between pages has elapsed, the
\* signal is not aborted and p+1 is within getMaxPagesForZoom(zoom).  The
\* features gathered are those of pages 1..m in order, every page before
\* the last a full one, and m never exceeds the budget.  A page that
\* returns fewer items than the page size ends the fetch, and a fetch that
\* has ended requests nothing more.
C11_PagesInOrder ==
  /\ [](\A f \in FetchIds :
          LET fr == fetches[f]
              m == Len(fr.allFeatures)
          IN  /\ fr.maxPages = getMaxPagesForZoom(fr.zoom)
              /\ m <= fr.maxPages
              /\ \A j \in 1..m :
                   /\ fr.allFeatures[j][1] = fr.layerType
                   /\ fr.allFeatures[j][2] = j
                   /\ j < m => fr.allFeatures[j][3] = fr.pagesize
              /\ fr.phase \in {"fetch", "backoff"} =>
                   /\ fr.pageNumber \in 1..fr.maxPages
                   /\ m = fr.pageNumber - 1
              /\ fr.phase = "delay" =>
                   /\ fr.pageNumber \in 2..(fr.maxPages + 1)
                   /\ m = fr.pageNumber - 1
                   /\ fr.allFeatures[m][3] = fr.pagesize)
  /\ [][(\A g \in (1..Len(fetches')) \ FetchIds :
             fetches'[g].phase # "settled" =>
               fetches'[g].phase = "fetch" /\ fetches'[g].pageNumber = 1)
         /\ \A f \in FetchIds :
             LET fr == fetches[f]
                 to == fetches'[f]
             IN  /\ fr.phase = "settled" => to = fr
                 /\ to.phase # "settled" /\ to.pageNumber # fr.pageNumber =>
                      /\ fr.phase = "fetch"
                      /\ to.phase = "delay"
                      /\ to.pageNumber = fr.pageNumber + 1
                 /\ fr.phase = "delay" /\ to.phase # "delay" =>
                      IF fr.pageNumber <= fr.maxPages /\ fr.signal \notin aborted
                      THEN to.phase = "fetch"
                      ELSE to.phase = "settled"
                 /\ (\E resp \in Responses(fr.pagesize) :
                       /\ resp.status = 200
                       /\ resp.n < fr.pagesize
                       /\ PageResponse(f, resp)) =>
                      to.phase = "settled"]_vars

\* C11 witness: pages of 250, 250 and 125 items were received with a page
\* size of 250, and the fetch has ended after the third
C11_ThreePagesThenStop ==
  \E f \in FetchIds :
    /\ fetches[f].phase = "settled"
    /\ fetches[f].pagesize = 250
    /\ fetches[f].allFeatures =
         << <<"1", 1, 250>>, <<"1", 2, 250>>, <<"1", 3, 125>> >>

\* C12: a page answered by an HTTP server error (5xx: 500, 503) is retried
\* while fewer than 2 retries were made for it: the fetcher waits for the
\* backoff and asks for the page again, with nothing gathered lost.  Once
\* the 2 retries are used up the page counts as failed, the fetch ends and
\* its value is the features gathered from the earlier pages.
C12_ServerErrorsRetried ==
  [][\A f \in FetchIds : \A s \in {500, 503} :
       LET fr == fetches[f]
           to == fetches'[f]
       IN  PageResponse(f, [status |-> s, n |-> 0]) =>
             IF fr.retryCount < MAX_RETRIES
             THEN /\ to.phase = "backoff"
                  /\ to.retryCount = fr.retryCount + 1
                  /\ to.pageNumber = fr.pageNumber
                  /\ to.allFeatures = fr.allFeatures
             ELSE /\ to.phase = "settled"
                  /\ to.failed
                  /\ to.allFeatures = fr.allFeatures
                  /\ to.out = fr.allFeatures]_vars

\* C13: once the signal of a fetch has fired, the fetcher gathers no further
\* features, requests no page (neither a later one nor a retry of the
\* current one), and its next step is to return the features it has: the
\* page is not counted as failed and nothing is thrown.  A fetch started on
\* a signal that has already fired returns the empty list the same way.
C13_CancellationStopsFetcher ==
  [][/\ \A f \in FetchIds :
          LET fr == fetches[f]
              to == fetches'[f]
          IN  fr.phase # "settled" /\ fr.signal \in aborted =>
                /\ to.allFeatures = fr.allFeatures
                /\ to.phase \in {fr.phase, "settled"}
                /\ to.phase # "settled" => to = fr
                /\ to.phase = "settled" =>
                     /\ to.outcome = "aborted"
                     /\ ~to.failed
                     /\ ~to.rejected
     /\ \A g \in (1..Len(fetches')) \ FetchIds :
          fetches'[g].signal \in aborted =>
            /\ fetches'[g].phase = "settled"
            /\ fetches'[g].allFeatures = <<>>
            /\ fetches'[g].outcome = "aborted"
            /\ ~fetches'[g].failed
            /\ ~fetches'[g].rejected]_vars

\* C13 witness: a fetch that had gathered a page was cancelled and has
\* returned that page, with no failure
C13_CancelledWithFeatures ==
  \E f \in FetchIds :
    /\ fetches[f].phase = "settled"
    /\ fetches[f].outcome = "aborted"
    /\ fetches[f].allFeatures # <<>>
    /\ ~fetches[f].failed

\* C14: a page answered by HTTP 404 is an empty page that succeeded: it is
\* not retried and not counted as failed, nothing is thrown, the fetch ends
\* there as it does on a short page, and its value is the features of the
\* earlier pages.
C14_NotFoundIsEmptyPage ==
  [][\A f \in FetchIds :
       LET fr == fetches[f]
           to == fetches'[f]
       IN  PageResponse(f, [status |-> 404, n |-> 0]) =>
             /\ to.phase = "settled"
             /\ ~to.failed
             /\ ~to.rejected
             /\ to.outcome = "cached"
             /\ to.allFeatures = fr.allFeatures
             /\ to.out = fr.allFeatures]_vars

\* C14 witness: page 1 came in full and page 2 was not found (the remote
\* has no short pages): the fetch ended within its budget of three pages,
\* without failure, and its value is page 1
C14_NotFoundAfterFullPage ==
  \E f \in FetchIds :
    /\ fetches[f].phase = "settled"
    /\ fetches[f].outcome = "cached"
    /\ ~fetches[f].failed
    /\ fetches[f].maxPages = 3
    /\ fetches[f].allFeatures = << <<"1", 1, 250>> >>
    /\ fetches[f].out = fetches[f].allFeatures

\* C15: TileCache.get(tileKey) with a database reads the record of the key
\* as stored when it is called.  With no record it returns null and leaves
\* the store alone.  With a record whose age (the time of the answer minus
\* the record's timestamp) is at most CACHE_DURATION, 7 days, it returns the
\* record's features and leaves the store alone.  With an older record it
\* returns null and the key has no record afterwards, the records of the
\* other keys staying as they are.
C15_GetHonoursTTL ==
  [][/\ \A i \in (1..Len(cacheCalls')) \ CacheCallIds :
          LET to == cacheCalls'[i]
          IN  to.op = "get" /\ to.phase = "request" =>
                to.snap = store[to.tileKey] /\ store' = store
     /\ \A i \in CacheCallIds :
          LET call == cacheCalls[i]
              to == cacheCalls'[i]
              r == call.snap
          IN  call.op = "get" /\ call.phase = "request" /\ to.phase = "done"
              => IF ~r.present
                 THEN ~to.hit /\ store' = store
                 ELSE IF now - r.timestamp <= 7 * 24 * 60 * 60 * 1000
                 THEN to.hit /\ to.val = r.features /\ store' = store
                 ELSE /\ ~to.hit
                      /\ ~store'[call.tileKey].present
                      /\ \A k \in TileKeys \ {call.tileKey} :
                           store'[k] = store[k]]_vars

\* C15 witness: a record inserted at time 0 was read at 7 days + 1 ms: null
\* was returned and the key has no record
C15_ExpiredRecordRemoved ==
  \E i \in CacheCallIds :
    /\ cacheCalls[i].op = "get"
    /\ cacheCalls[i].phase = "done"
    /\ cacheCalls[i].snap.present
    /\ cacheCalls[i].snap.timestamp = 0
    /\ now = 7 * 24 * 60 * 60 * 1000 + 1
    /\ ~cacheCalls[i].hit
    /\ ~store[cacheCalls[i].tileKey].present

\* C16: when IndexedDB does not exist, or once opening it has failed, the
\* cache is a no-op: there is no database and no record, no call is left
\* waiting, every get has returned null and every getStats zero records,
\* whatever calls were made (set, delete and clear included).
C16_NoStorageNoOp ==
  ~storageAvailable =>
    /\ ~db
    /\ \A k \in TileKeys : store[k] = NoRecord
    /\ \A i \in CacheCallIds :
         /\ cacheCalls[i].phase = "done"
         /\ ~cacheCalls[i].hit
         /\ cacheCalls[i].val = <<>>
         /\ cacheCalls[i].totalTiles = 0

\* C16 witness: without storage, features were set for a key, and a get of
\* the key made afterwards has returned null
C16_SetThenGetMisses ==
  /\ ~storageAvailable
  /\ Len(cacheCalls) = 2
  /\ cacheCalls[1].op = "set"
  /\ cacheCalls[1].features # <<>>
  /\ cacheCalls[2].op = "get"
  /\ cacheCalls[2].tileKey = cacheCalls[1].tileKey
  /\ cacheCalls[2].phase = "done"
  /\ ~cacheCalls[2].hit

\* C17: TileCache.set with a database puts a whole new record in the place
\* of the key's record: the features and metadata given, the current time
\* as timestamp, and the z, x, y and category taken out of the key, which
\* are the values getTileKey built the key from.  Nothing of the record it
\* replaces is kept.  Every record in the store is such a record, for the
\* sets that waited for the database too, and taking apart any key that
\* getTileKey makes for a category "1", "2", "3" or "all" gives back the
\* values it was made from.
C17_SetReplacesRecord ==
  /\ [](\A tile \in CacheTiles :
          LET k == getTileKey(tile.bounds, tile.zoom, tile.layerType)
              c == getCenter(tile.bounds)
          IN  store[k].present =>
                /\ store[k].z = TileZ(tile.zoom)
                /\ store[k].x = TileX(c, TileZ(tile.zoom))
                /\ store[k].y = TileY(c, TileZ(tile.zoom))
                /\ store[k].layerType = << Word(tile.layerType) >>)
  /\ [](\A r \in Requests \cup SiblingRequests \cup FetcherRequests :
        \A l \in {"1", "2", "3", "all"} :
          LET record == NewRecord(getTileKey(r.bounds, r.zoom, l), <<>>, 0)
              c == getCenter(r.bounds)
          IN  /\ record.z = TileZ(r.zoom)
              /\ record.x = TileX(c, TileZ(r.zoom))
              /\ record.y = TileY(c, TileZ(r.zoom))
              /\ record.layerType = << Word(l) >>)
  /\ [][/\ \A tile \in CacheTiles : \A features \in CacheFeatures :
            LET k == getTileKey(tile.bounds, tile.zoom, tile.layerType)
                c == getCenter(tile.bounds)
            IN  db /\ CacheSet(tile, features) =>
                  store' = [store EXCEPT ![k] =
                    [present |-> TRUE,
                     z |-> TileZ(tile.zoom),
                     x |-> TileX(c, TileZ(tile.zoom)),
                     y |-> TileY(c, TileZ(tile.zoom)),
                     layerType |-> << Word(tile.layerType) >>,
                     features |-> features,
                     timestamp |-> now,
                     zoom |-> tile.zoom]]
        /\ \A k \in TileKeys :
            store'[k] # store[k] /\ store'[k].present =>
              \E i \in 1..Len(cacheCalls') :
                /\ i \in CacheCallIds => cacheCalls[i].phase = "init"
                /\ cacheCalls'[i].op = "set"
                /\ cacheCalls'[i].phase = "done"
                /\ cacheCalls'[i].tileKey = k
                /\ store'[k].features = cacheCalls'[i].features
                /\ store'[k].zoom = cacheCalls'[i].zoom
                /\ store'[k].timestamp = now]_vars

\* C17 witness: a key was set twice with different features, time having
\* passed: its record has the features of the second set and the current
\* time
C17_SecondSetWins ==
  /\ db
  /\ Len(cacheCalls) = 2
  /\ cacheCalls[1].op = "set"
  /\ cacheCalls[2].op = "set"
  /\ cacheCalls[2].tileKey = cacheCalls[1].tileKey
  /\ cacheCalls[2].features # cacheCalls[1].features
  /\ now > 0
  /\ store[cacheCalls[2].tileKey].features = cacheCalls[2].features
  /\ store[cacheCalls[2].tileKey].timestamp = now

\* C18: getStats (getCacheStats) only observes.  The step in which it is
\* called and the step in which its answer arrives leave every record of the
\* store, timestamps included, and the table of in-flight requests as they
\* were, also when records older than CACHE_DURATION are stored.  Its answer
\* is the number of records stored when it made its read request, expired
\* ones included, and zero when there is no database.
C18_GetStatsObservesOnly ==
  [][/\ \A i \in (1..Len(cacheCalls')) \ CacheCallIds :
          cacheCalls'[i].op = "getStats" =>
            /\ store' = store
            /\ activeRequests' = activeRequests
            /\ fetches' = fetches
            /\ cacheCalls'[i].totalTiles =
                 IF db THEN Cardinality({k \in TileKeys : store[k].present})
                 ELSE 0
     /\ \A i \in CacheCallIds :
          cacheCalls[i].op = "getStats" /\ cacheCalls'[i] # cacheCalls[i] =>
            /\ store' = store
            /\ activeRequests' = activeRequests
            /\ fetches' = fetches
            /\ cacheCalls'[i].totalTiles =
                 IF cacheCalls[i].phase = "init"
                 THEN Cardinality({k \in TileKeys : store[k].present})
                 ELSE cacheCalls[i].totalTiles]_vars

\* C18 witness: getStats has answered 1 while the one record stored is older
\* than 7 days and a fetch is in flight: the record and the table entry are
\* still there
C18_ExpiredRecordCounted ==
  \E i \in CacheCallIds : \E k \in TileKeys : \E h \in TileKeys :
    /\ cacheCalls[i].op = "getStats"
    /\ cacheCalls[i].phase = "done"
    /\ cacheCalls[i].totalTiles = 1
    /\ store[k].present
    /\ now - store[k].timestamp > 7 * 24 * 60 * 60 * 1000
    /\ activeRequests[h] # 0

\* C19: the key getTileKey gives depends only on the center of the bounds,
\* on floor(zoom) and on the category.  Two applications with the same
\* center, the same floor(zoom) and the same category give the same key,
\* whatever the bounds; so do two whose centers fall in the same tile
\* (x, y) at the same floor(zoom), with the same category; and two
\* applications with different categories never give the same key.
C19_TileKeyDeterminism ==
  \A i \in DOMAIN utilCalls : \A j \in DOMAIN utilCalls :
    LET a == utilCalls[i]
        b == utilCalls[j]
        ca == getCenter(a.bounds)
        cb == getCenter(b.bounds)
        za == a.zoom \div 10
        zb == b.zoom \div 10
    IN  /\ ca = cb /\ za = zb /\ a.layerType = b.layerType
             => a.result = b.result
        /\ ( /\ TileX(ca, za) = TileX(cb, zb)
             /\ TileY(ca, za) = TileY(cb, zb)
             /\ za = zb
             /\ a.layerType = b.layerType ) => a.result = b.result
        /\ a.layerType # b.layerType => a.result # b.result

\* C19 witness: getTileKey was applied to two viewports with different
\* centers at different zooms (11.0 and 11.5) and gave one key
C19_SharedAndDistinctKeys ==
  /\ Len(utilCalls) = 2
  /\ getCenter(utilCalls[1].bounds) # getCenter(utilCalls[2].bounds)
  /\ utilCalls[1].zoom # utilCalls[2].zoom
  /\ utilCalls[1].result = utilCalls[2].result

\* the elements of a sequence
Range(seq) == { seq[i] : i \in DOMAIN seq }

\* C20: with no category chosen, getLayersForZoom gives only zones up to
\* zoom 10, zones and vegetation up to zoom 12, the three categories up to
\* zoom 14, and above 14 the three in the order vegetation, furniture,
\* zones; no category is given twice.  With a category chosen it gives
\* exactly that category at every zoom.
C20_LayersForZoom ==
  \A i \in DOMAIN utilCalls :
    LET zoom == utilCalls[i].zoom
        result == utilCalls[i].result
    IN  IF utilCalls[i].userSelectedType # NoType
        THEN result = << utilCalls[i].userSelectedType >>
        ELSE /\ zoom <= 100 => result = << Zones >>
             /\ zoom > 100 /\ zoom <= 120 =>
                  Len(result) = 2 /\ Range(result) = {Zones, Vegetation}
             /\ zoom > 120 /\ zoom <= 140 =>
                  /\ Len(result) = 3
                  /\ Range(result) = {Zones, Vegetation, Furniture}
             /\ zoom > 140 => result = << Vegetation, Furniture, Zones >>

\* C20 witness: with no category chosen zoom 16 gave vegetation, furniture,
\* zones, and with furniture chosen zoom 9 gave furniture alone
C20_UnchosenAndChosen ==
  /\ Len(utilCalls) = 2
  /\ utilCalls[1].zoom = 160
  /\ utilCalls[1].userSelectedType = NoType
  /\ utilCalls[1].result = << Vegetation, Furniture, Zones >>
  /\ utilCalls[2].zoom = 90
  /\ utilCalls[2].userSelectedType = Furniture
  /\ utilCalls[2].result = << Furniture >>

\* C21: chooseSpatialStrategy applies its rules in this order.  At zoom 10
\* or below every category, furniture included, gets a radius query
\* centered on the viewport.  Above zoom 10 furniture gets a radius query
\* centered on the viewport, of 1500 m from zoom 13 on and of 3000 m below.
\* Every other application gets a polygon query whose ring has five
\* vertices, the first equal to the last, all inside the viewport, with
\* the center of the viewport, and with extents that are 0.6 times those of
\* the viewport below zoom 13 and 0.8 times from zoom 13 on.
C21_StrategyPrecedence ==
  \A i \in DOMAIN utilCalls :
    LET a == utilCalls[i]
        b == a.bounds
        cx == (b.west + b.east) \div 2
        cy == (b.south + b.north) \div 2
        centered == /\ a.result.type = "radius"
                    /\ a.result.params.latitude = cy * 1000
                    /\ a.result.params.longitude = cx * 1000
    IN  IF a.zoom <= 100 THEN centered
        ELSE IF a.greenCodeType = Furniture
        THEN /\ centered
             /\ a.result.params.radius = IF a.zoom >= 130 THEN 1500 ELSE 3000
        ELSE /\ a.result.type = "polygon"
             /\ LET ring == a.result.params.polygon
                    xs == { ring[j][1] : j \in DOMAIN ring }
                    ys == { ring[j][2] : j \in DOMAIN ring }
                    f10 == IF a.zoom < 130 THEN 6 ELSE 8
                IN  /\ Len(ring) = 5
                    /\ ring[1] = ring[5]
                    /\ \A x \in xs : b.west <= x /\ x <= b.east
                    /\ \A y \in ys : b.south <= y /\ y <= b.north
                    /\ \E w \in xs : \E e \in xs :
                         /\ xs = {w, e}
                         /\ w + e = 2 * cx
                         /\ (e - w) * 10 = (b.east - b.west) * f10
                    /\ \E s \in ys : \E n \in ys :
                         /\ ys = {s, n}
                         /\ s + n = 2 * cy
                         /\ (n - s) * 10 = (b.north - b.south) * f10
                    /\ { ring[j] : j \in 1..4 } = xs \X ys

\* C21 witness: furniture at zoom 9 got a radius query that is neither of
\* 1500 m nor of 3000 m
C21_FurnitureAtLowZoom ==
  /\ Len(utilCalls) = 1
  /\ utilCalls[1].greenCodeType = Furniture
  /\ utilCalls[1].zoom = 90
  /\ utilCalls[1].result.type = "radius"
  /\ utilCalls[1].result.params.radius \notin {1500, 3000}

\* C22: at zoom 10 or below, for every viewport and every category, the
\* radius of the query is the smaller of the radius computed from the
\* viewport and 20000 m, so it is never above 20000 m; a computed radius of
\* 35000 m is issued as 20000 m.
C22_RadiusCap ==
  \A i \in DOMAIN utilCalls :
    LET a == utilCalls[i]
        computed == calculateRadiusFromBounds(a.bounds)
    IN  a.zoom <= 100 =>
          /\ a.result.type = "radius"
          /\ a.result.params.radius <= 20000
          /\ computed <= 20000 => a.result.params.radius = computed
          /\ computed > 20000 => a.result.params.radius = 20000
          /\ computed = 35000 => a.result.params.radius = 20000

\* C22 witness: at zoom 9 a viewport with a computed radius of 35000 m got
\* a query of 20000 m
C22_Capped35000 ==
  /\ Len(utilCalls) = 1
  /\ utilCalls[1].zoom = 90
  /\ calculateRadiusFromBounds(utilCalls[1].bounds) = 35000
  /\ utilCalls[1].result.type = "radius"
  /\ utilCalls[1].result.params.radius = 20000

\* the interval of zooms a zoom lies in, the intervals ending at `first`
\* (zoom 10 or zoom 11), at zoom 13 and at zoom 15
ZoomStep(zoom, first) ==
  IF zoom <= first THEN 1
  ELSE IF zoom <= 130 THEN 2
  ELSE IF zoom <= 150 THEN 3
  ELSE 4

\* C23: the page size and the page budget never decrease when the zoom
\* grows; the page size is one of 100, 150, 250, 400 and the page budget
\* one of 1, 2, 3, 999.  The page size changes exactly at zooms 10, 13 and
\* 15, the page budget exactly at zooms 11, 13 and 15, and the geometry
\* policy exactly at zooms 11, 13 and 15: the thresholds are those of the
\* geometry policy, except that the first one of the page size is zoom 10.
C23_PagePolicyMonotone ==
  \A i \in DOMAIN utilCalls : \A j \in DOMAIN utilCalls :
    LET a == utilCalls[i]
        b == utilCalls[j]
    IN  /\ a.pagesize \in {100, 150, 250, 400}
        /\ a.maxPages \in {1, 2, 3, 999}
        /\ a.zoom <= b.zoom =>
             a.pagesize <= b.pagesize /\ a.maxPages <= b.maxPages
        /\ a.pagesize = b.pagesize <=>
             ZoomStep(a.zoom, 100) = ZoomStep(b.zoom, 100)
        /\ a.maxPages = b.maxPages <=>
             ZoomStep(a.zoom, 110) = ZoomStep(b.zoom, 110)
        /\ a.geoStrategy = b.geoStrategy <=>
             ZoomStep(a.zoom, 110) = ZoomStep(b.zoom, 110)

\* C23 witness: from zoom 13 to zoom 13.1 the page size, the page budget
\* and the geometry policy all changed, and both numbers grew
C23_StepAt13 ==
  /\ Len(utilCalls) = 2
  /\ utilCalls[1].zoom = 130
  /\ utilCalls[2].zoom = 131
  /\ utilCalls[1].pagesize < utilCalls[2].pagesize
  /\ utilCalls[1].maxPages < utilCalls[2].maxPages
  /\ utilCalls[1].geoStrategy # utilCalls[2].geoStrategy

\* r is p with some of its elements left out
RECURSIVE IsSubsequence(_, _)
IsSubsequence(r, p) ==
  IF Len(r) = 0 THEN TRUE
  ELSE IF Len(p) = 0 THEN FALSE
  ELSE IF Head(r) = Head(p) THEN IsSubsequence(Tail(r), Tail(p))
  ELSE IsSubsequence(r, Tail(p))

\* a number that grows with the distance of point pt from the line through
\* a and b, or from a when b is a: the square of twice the area of the
\* triangle a, b, pt, or the square of the distance from a
Farness(pt, a, b) ==
  IF a = b
  THEN (pt[1] - a[1]) * (pt[1] - a[1]) + (pt[2] - a[2]) * (pt[2] - a[2])
  ELSE LET cross == (b[1] - a[1]) * (pt[2] - a[2])
                      - (b[2] - a[2]) * (pt[1] - a[1])
       IN  cross * cross

\* the distance of pt from the line through a and b (from a when b is a) is
\* at most tol
WithinTolerance(pt, a, b, tol) ==
  IF a = b THEN Farness(pt, a, b) <= tol * tol
  ELSE Farness(pt, a, b) <=
         tol * tol * ((b[1] - a[1]) * (b[1] - a[1])
                        + (b[2] - a[2]) * (b[2] - a[2]))

\* C27: _douglasPeucker, applied to at least 2 points and a tolerance >= 0,
\* gives a subsequence of the points, in their order, that starts with the
\* first and ends with the last.  When no point between the ends is farther
\* from the line through the ends than the tolerance, the result is the two
\* ends; otherwise the first of the farthest points is kept and the result
\* is the simplification of the points up to it followed by that of the
\* points from it on.  When the two ends are the same point the distance is
\* the distance from that point.  The ring 0 0, 0 1, 1 1, 1 0, 0 0 with
\* tolerance 0 keeps its 5 points.
C27_DouglasPeucker ==
  \A i \in DOMAIN utilCalls :
    LET p == utilCalls[i].points
        tol == utilCalls[i].tolerance
        r == utilCalls[i].result
        n == Len(p)
        inner == 2..(n - 1)
        far == { m \in inner :
                   /\ ~WithinTolerance(p[m], p[1], p[n], tol)
                   /\ \A k \in inner :
                        /\ Farness(p[k], p[1], p[n]) <=
                             Farness(p[m], p[1], p[n])
                        /\ k < m => Farness(p[k], p[1], p[n]) <
                                      Farness(p[m], p[1], p[n]) }
    IN  /\ IsSubsequence(r, p)
        /\ Len(r) >= 2
        /\ r[1] = p[1]
        /\ r[Len(r)] = p[n]
        /\ (\A m \in inner : WithinTolerance(p[m], p[1], p[n], tol))
             => r = << p[1], p[n] >>
        /\ (\E m \in inner : ~WithinTolerance(p[m], p[1], p[n], tol))
             => /\ Cardinality(far) = 1
                /\ \A m \in far :
                     LET left == douglasPeucker(SubSeq(p, 1, m), tol)
                         right == douglasPeucker(SubSeq(p, m, n), tol)
                     IN  /\ \E k \in 2..(Len(r) - 1) : r[k] = p[m]
                         /\ r = SubSeq(left, 1, Len(left) - 1) \o right
        /\ ( /\ p = << <<0, 0>>, <<0, 1>>, <<1, 1>>, <<1, 0>>, <<0, 0>> >>
             /\ tol = 0 ) => r = p

\* C27 witness: the ring 0 0, 0 1, 1 1, 1 0, 0 0 was simplified with
\* tolerance 0 and the result has 5 points
C27_RingKept ==
  /\ Len(utilCalls) = 1
  /\ utilCalls[1].points
       = << <<0, 0>>, <<0, 1>>, <<1, 1>>, <<1, 0>>, <<0, 0>> >>
  /\ utilCalls[1].tolerance = 0
  /\ Len(utilCalls[1].result) = 5

\* the Geometry text of a record ("": none)
GeometryText(item) ==
  IF Len(item.Geo) = 0 THEN <<>> ELSE defaultGeo(item).Geometry

\* the text starts with the keyword
HasKeyword(text, keyword) == Len(text) > 0 /\ text[1] = Sym(keyword)

\* C24: a record whose geometry text is a LINESTRING gives a LineString
\* feature only at a zoom whose policy has includeFullGeometry (above zoom
\* 11); at zoom 11 or below it gives no feature; and at no zoom does it
\* give a feature whose geometry is a point.
C24_LineNeverPoint ==
  \A c \in DOMAIN utilCalls :
    \A i \in DOMAIN utilCalls[c].items :
      LET zoom == utilCalls[c].zoom
          feature == utilCalls[c].mapped[i]
      IN  HasKeyword(GeometryText(utilCalls[c].items[i]), "LINESTRING") =>
            /\ ( /\ feature # NoFeature
                 /\ feature.geometry.type = "LineString" )
                 => /\ zoom > 110
                    /\ getGeometryStrategy(zoom).includeFullGeometry
            /\ zoom <= 110 => feature = NoFeature
            /\ feature # NoFeature => feature.geometry.type # "Point"

\* the record has a Latitude and a Longitude, on the entry of Geo that is
\* used or on the record itself
HasPosition(item) ==
  /\ Len(item.Geo) > 0
  /\ Coalesce(defaultGeo(item).Latitude, item.Latitude) # null
  /\ Coalesce(defaultGeo(item).Longitude, item.Longitude) # null

\* the point is the mean of the vertices of the ring, to within half a
\* millionth of a degree
IsCentroid(point, ring) ==
  \A k \in {1, 2} :
    /\ 2 * (Len(ring) * point[k] - sum(ring, k)) <= Len(ring)
    /\ 2 * (sum(ring, k) - Len(ring) * point[k]) <= Len(ring)

\* C25: a POINT text gives a Point with its coordinates at every zoom.  A
\* POLYGON text gives a Polygon whose vertices are vertices of its ring
\* when the zoom policy has includeFullGeometry (above zoom 11) and a Point
\* at the mean of the vertices of its ring otherwise.  A text that is
\* malformed or of no known kind gives null, and a record that has neither
\* a decodable text nor a position gives no feature.  The features of a
\* page are the features of its records that gave one, in their order:
\* the others are left out and the page is decoded all the same.
C25_DecodingDispatch ==
  \A c \in DOMAIN utilCalls :
    LET call == utilCalls[c]
        strategy == getGeometryStrategy(call.zoom)
    IN  /\ \A i \in DOMAIN call.items :
             LET item == call.items[i]
                 text == GeometryText(item)
                 feature == call.mapped[i]
             IN  /\ text \in {WktPoint, WktPointSrid} =>
                      /\ feature # NoFeature
                      /\ feature.geometry
                           = [type |-> "Point", coordinates |-> <<120, 40>>]
                 /\ \A ring \in {SquareRing, TriangleRing} :
                      text = WktRingText("POLYGON", ring) =>
                        /\ feature # NoFeature
                        /\ call.zoom > 110 =>
                             /\ strategy.includeFullGeometry
                             /\ feature.geometry.type = "Polygon"
                             /\ Len(feature.geometry.coordinates) = 1
                             /\ IsSubsequence(feature.geometry.coordinates[1],
                                              ring)
                        /\ call.zoom <= 110 =>
                             /\ ~strategy.includeFullGeometry
                             /\ feature.geometry.type = "Point"
                             /\ IsCentroid(feature.geometry.coordinates, ring)
                 /\ text \in {WktEmptyPoint, WktCircle, WktBadNumber,
                              WktNoNumber, WktShortRing} =>
                      /\ parseWKT(text, strategy) = NoGeometry
                      /\ ~HasPosition(item) => feature = NoFeature
                 /\ Len(text) = 0 /\ ~HasPosition(item) =>
                      feature = NoFeature
        /\ IsSubsequence(call.features, call.mapped)
        /\ \A j \in DOMAIN call.features : call.features[j].type = "Feature"
        /\ Len(call.features)
             = Cardinality({ i \in DOMAIN call.mapped :
                               call.mapped[i] # NoFeature })

\* C25 witness: a page of a CIRCLE text and a POLYGON text was decoded at
\* zoom 10.5; its features are one Point, that of the polygon
C25_UnknownDroppedPolygonReduced ==
  /\ Len(utilCalls) = 1
  /\ utilCalls[1].zoom = 105
  /\ Len(utilCalls[1].items) = 2
  /\ GeometryText(utilCalls[1].items[1]) = WktCircle
  /\ GeometryText(utilCalls[1].items[2]) = WktSquare
  /\ utilCalls[1].mapped[1] = NoFeature
  /\ Len(utilCalls[1].features) = 1
  /\ utilCalls[1].features[1].geometry
       = [type |-> "Point", coordinates |-> <<42, 34>>]

\* the keys of the properties below zoom 12
BaseKeys == {"id", "greenCodeType", "greenCodeSubtype", "greenCode",
             "isActive"}

\* C26: below zoom 12 the properties of a feature are the identifier, the
\* category, the subtype, the code and the active flag, and nothing else;
\* from zoom 12 to below zoom 15 there is a title as well, which is the
\* title in the loader's language when the record has one; from zoom 15 on
\* there are also the short name and the active label "Yes" or "No".  The
\* keys at a zoom are among the keys at every higher zoom, and for one
\* record and one language the values under the common keys are the same.
C26_PropertyTiers ==
  \A i \in DOMAIN utilCalls : \A j \in DOMAIN utilCalls :
    LET a == utilCalls[i]
        b == utilCalls[j]
        keys == DOMAIN a.result
    IN  /\ a.zoom < 120 => keys = BaseKeys
        /\ a.zoom >= 120 /\ a.zoom < 150 => keys = BaseKeys \cup {"title"}
        /\ a.zoom >= 150 =>
             /\ keys = BaseKeys \cup {"title", "active", "shortname"}
             /\ a.result.active = IF a.item.Active THEN "Yes" ELSE "No"
             /\ a.item.Shortname # undefined =>
                  a.result.shortname = a.item.Shortname
        /\ a.result.id = a.item.Id
        /\ a.result.isActive = a.item.Active
        /\ a.zoom >= 120 =>
             \A k \in DOMAIN a.item.Detail :
               a.item.Detail[k].lang = a.lang =>
                 a.result.title = a.item.Detail[k].Title
        /\ a.zoom <= b.zoom =>
             /\ keys \subseteq DOMAIN b.result
             /\ a.item = b.item /\ a.lang = b.lang =>
                  \A key \in keys : a.result[key] = b.result[key]

\* C26 witness: the properties of one record were taken at zoom 11.9 and at
\* zoom 15 in Italian: five keys, then eight with the Italian title
C26_LowAndHighTier ==
  /\ Len(utilCalls) = 2
  /\ utilCalls[1].item = utilCalls[2].item
  /\ utilCalls[1].zoom = 119
  /\ utilCalls[2].zoom = 150
  /\ utilCalls[2].lang = "it"
  /\ Cardinality(DOMAIN utilCalls[1].result) = 5
  /\ Cardinality(DOMAIN utilCalls[2].result) = 8
  /\ utilCalls[2].result.title = "Quercia"

\* what the zoom decides of the fetch of a category in a viewport: the
\* geometry policy, the keys of the properties, the query and the paging
ZoomPolicy(zoom, layerType, bounds) ==
  [geoStrategy |-> getGeometryStrategy(zoom),
   keys |-> DOMAIN extractProperties(FullRecord, zoom, "en"),
   strategy |-> chooseSpatialStrategy(layerType, zoom, bounds),
   pagesize |-> getOptimalPageSize(zoom),
   maxPages |-> getMaxPagesForZoom(zoom)]

\* C28: whenever a category of a load is served from the tile cache, the
\* record it is served was written by a fetch at a zoom with the same
\* floor, and that zoom decides the same geometry policy, property keys,
\* query and paging for the load's viewport as the load's own zoom.
C28_CachedUnderSamePolicy ==
  [][ \A c \in CallIds : \A i \in DOMAIN calls[c].layers :
        LET layer == calls[c].layers[i]
        IN  CacheGetDone(c, i) /\ TileCacheHit(layer.snap) =>
              /\ TileZ(layer.snap.zoom) = TileZ(calls[c].zoom)
              /\ ZoomPolicy(layer.snap.zoom, layer.layerType, calls[c].bounds)
                   = ZoomPolicy(calls[c].zoom, layer.layerType,
                                calls[c].bounds) ]_vars

\* C29: when the fetcher of a fetch returns after one of its pages failed
\* (a server error after the retries, a network error, a body that is not
\* JSON), the features it returns, the empty list of a failed first page
\* included, are not written to the tile cache: the record of its tile key
\* stays as it was.
C29_FailedFetchNotCached ==
  [][ \A f \in FetchIds :
        LET running == {"fetch", "delay", "backoff"}
        IN  ( /\ fetches[f].phase \in running
              /\ fetches'[f].phase \notin running
              /\ fetches'[f].failed )
            => store'[fetches[f].tileKey] = store[fetches[f].tileKey]
    ]_vars

\* C30: in the map component, a load that was cancelled (by the movestart
\* handler's abortAll, with no newer load started) never has its result
\* applied: every load whose result became the layer data of the selected
\* category returned uncancelled.
C30_CancelledLoadNotApplied ==
  \A c \in CallIds :
    calls[c].applied = "applied" => ~calls[c].cancelled

\* C31: of the cancellation signals the loader has issued at most one is not
\* aborted, and it is the signal of the most recent loadViewportData call;
\* every fetch still registered in activeRequests that an earlier call
\* started has an aborted signal.
C31_OneLiveSignal ==
  /\ \A c \in CallIds :
       calls[c].signal \notin aborted => c = Len(calls)
  /\ \A k \in TileKeys :
       LET f == activeRequests[k]
       IN  (f # 0 /\ fetches[f].signal # calls[Len(calls)].signal)
             => fetches[f].signal \in aborted

\* C31 witness: a fetch of an earlier call is still registered, its signal
\* aborted, while the latest call's signal is live
C31_EarlierFetchRegistered ==
  /\ Len(calls) >= 2
  /\ calls[Len(calls)].signal \notin aborted
  /\ \E k \in TileKeys :
       /\ activeRequests[k] # 0
       /\ fetches[activeRequests[k]].signal # calls[Len(calls)].signal
       /\ fetches[activeRequests[k]].phase # "settled"

\* C32: once clearCache() has cleared the store, a fetch that had been
\* started before clearCache was called writes nothing to the tile cache
\* when it returns: the record of its tile key stays as it was.
C32_ClearedStaysClear ==
  [][ \A f \in FetchIds : \A i \in CacheCallIds :
        LET running == {"fetch", "delay", "backoff"}
        IN  ( /\ cacheCalls[i].op = "clear"
              /\ cacheCalls[i].phase = "done"
              /\ f <= cacheCalls[i].started
              /\ fetches[f].phase \in running
              /\ fetches'[f].phase \notin running )
            => store'[fetches[f].tileKey] = store[fetches[f].tileKey]
    ]_vars

\* the place of the page request in flight among the requests a fetch can
\* make: 1 + MAX_RETRIES places for each page, in page order
RequestPlace(fr) ==
  (fr.pageNumber - 1) * (1 + MAX_RETRIES) + fr.retryCount + 1

\* C33: a single-category fetch terminates.  Every page request it has in
\* flight has a place from 1 to getMaxPagesForZoom(zoom) * (1 + MAX_RETRIES),
\* and the place of each later request is greater than that of the one
\* answered before it, so it issues no more requests than there are places;
\* when every page request is answered or aborted, again and again every
\* fetch started has returned and every loadViewportData call made has
\* resolved, so each of them eventually does.
C33_FetchTerminates ==
  /\ [](\A f \in FetchIds :
          fetches[f].phase = "fetch" =>
            /\ RequestPlace(fetches[f]) >= 1
            /\ RequestPlace(fetches[f])
                 <= getMaxPagesForZoom(fetches[f].zoom) * (1 + MAX_RETRIES))
  /\ [][ \A f \in FetchIds :
           /\ ( fetches[f].phase = "fetch"
                  /\ fetches'[f].phase \in {"delay", "backoff"} )
                => RequestPlace(fetches'[f]) > RequestPlace(fetches[f])
           /\ ( fetches[f].phase \in {"delay", "backoff"}
                  /\ fetches'[f].phase = "fetch" )
                => RequestPlace(fetches'[f]) = RequestPlace(fetches[f])
     ]_vars
  /\ []<>( /\ \A f \in FetchIds : fetches[f].phase = "settled"
           /\ \A c \in CallIds : calls[c].status = "resolved" )

\* C33 witness: a fetch has its last possible request in flight, the second
\* retry of the last page of its budget
C33_LastPlaceRequested ==
  \E f \in FetchIds :
    /\ fetches[f].phase = "fetch"
    /\ fetches[f].signal \notin aborted
    /\ RequestPlace(fetches[f])
         = getMaxPagesForZoom(fetches[f].zoom) * (1 + MAX_RETRIES)

C35_CacheKeepsLanguage ==
  \A i \in DOMAIN utilCalls : \A j \in DOMAIN utilCalls :
    ( /\ i < j
      /\ ~utilCalls[i].hit
      /\ utilCalls[j].hit
      /\ utilCalls[i].tileKey = utilCalls[j].tileKey
      /\ utilCalls[i].items = utilCalls[j].items )
    => utilCalls[j].features
         = filterBoolean(mapItemToFeature(utilCalls[j].items,
                                          utilCalls[j].zoom,
                                          utilCalls[j].lang))

C37_BatchesContiguous ==
  \A j \in DOMAIN utilCalls : \A i \in 1..(j - 1) :
    LET a == utilCalls[i]
        b == utilCalls[j]
    IN  (/\ a.fetched
         /\ b.fetched
         /\ ~b.reset
         /\ \A m \in (i + 1)..(j - 1) : ~utilCalls[m].fetched)
        => b.requested[1] = a.requested[Len(a.requested)] + 1

\* the features of the batches that the calls i..j loaded, in order
RECURSIVE BatchFeatures(_, _)
BatchFeatures(i, j) ==
  IF i > j THEN <<>>
  ELSE (IF utilCalls[i].fetched THEN utilCalls[i].features ELSE <<>>)
         \o BatchFeatures(i + 1, j)

\* the first call of the run of batches that call j belongs to: the last
\* call with reset=true that loaded a batch, or the first call
RunStart(j) ==
  LET resets == {i \in 1..j : utilCalls[i].reset /\ utilCalls[i].fetched}
  IN  IF resets = {} THEN 1
      ELSE CHOOSE i \in resets : \A m \in resets : m <= i

\* C38: when a /refresh call reaches isComplete, the type chunks together
\* hold the features of every batch loaded since the last reset, and
\* progress.totalFeatures is the number of those features.
C38_ChunksHoldEveryBatch ==
  \A j \in DOMAIN utilCalls :
    LET c == utilCalls[j]
        loaded == BatchFeatures(RunStart(j), j)
        held == getAllFeatures(c.kv.chunks)
    IN  (c.fetched /\ getProgress(c.kv).isComplete)
        => /\ {loaded[n] : n \in DOMAIN loaded}
                = {held[n] : n \in DOMAIN held}
           /\ getProgress(c.kv).totalFeatures = Len(loaded)

\* C39: a /refresh call without reset on a namespace whose progress is
\* complete requests no page and leaves every key as it was; a call with
\* reset=true stores progress page 1, zero features, not complete, and
\* deletes the four type chunks, and then loads a batch that starts at
\* page 1; a call without reset never lowers progress.currentPage.
C39_ProgressDiscipline ==
  \A j \in DOMAIN utilCalls :
    LET c == utilCalls[j]
    IN  /\ (c.lang \in SUPPORTED_LANGS /\ ~c.reset
               /\ getProgress(c.before).isComplete)
            => (c.requested = <<>> /\ ~c.fetched /\ c.kv = c.before)
        /\ (c.lang \in SUPPORTED_LANGS /\ c.reset)
            => /\ c.cleared.progress =
                    << [currentPage |-> 1, totalFeatures |-> 0,
                        isComplete |-> FALSE] >>
               /\ \A t \in DOMAIN c.cleared.chunks :
                    c.cleared.chunks[t] = <<>>
               /\ c.fetched
               /\ c.requested[1] = 1
        /\ ~c.reset
            => getProgress(c.kv).currentPage
                 >= getProgress(c.before).currentPage

\* C39 witness: a reset was served on a namespace that held features and
\* whose progress was past page 1, and a later call without reset was served
\* on a namespace whose progress was complete.
C39_ResetThenComplete ==
  \E i \in DOMAIN utilCalls : \E j \in DOMAIN utilCalls :
    /\ i < j
    /\ utilCalls[i].lang \in SUPPORTED_LANGS
    /\ utilCalls[i].reset
    /\ getAllFeatures(utilCalls[i].before.chunks) # <<>>
    /\ getProgress(utilCalls[i].before).currentPage > 1
    /\ utilCalls[j].lang \in SUPPORTED_LANGS
    /\ ~utilCalls[j].reset
    /\ getProgress(utilCalls[j].before).isComplete

====
